---- MODULE Spec2Model ----
(***************************************************************************)
(* Deposit-queue simulation engine of src/App.tsx.                         *)
(*                                                                         *)
(* Numbers.  The code computes with IEEE doubles; the model computes with  *)
(* integers in fixed point and only follows behaviours in which every      *)
(* product and quotient is exact (the Exact... guards), so that the        *)
(* integer value IS the real value the code computes:                      *)
(*   money        hundredths of a currency unit (1000 -> 100000)           *)
(*   multipliers  hundredths (2.0x -> 200)                                 *)
(*   feePercent   thousandths (0.01 -> 10)                                 *)
(*   other rates  percent (0.20 -> 20)                                     *)
(* Date.now() timestamps and chartData are display-only and are left out.  *)
(***************************************************************************)
EXTENDS Integers, Sequences, FiniteSets, TLC

VARIABLES
    queue,                    \* engine.queue
    historyCount,             \* engine.historyCount
    historySum,               \* engine.historySum
    totalDeposited,           \* engine.totalDeposited
    protocolBalance,          \* engine.protocolBalance
    jackpotBalance,           \* engine.jackpotBalance
    currentRound,             \* engine.currentRound
    tickCount,                \* engine.tickCount
    currentRandomMultiplier,  \* engine.currentRandomMultiplier
    engineConfig,             \* engine.config
    config,                   \* config (React state)
    multiplier,               \* base multiplier (React state)
    strategy,                 \* distribution strategy (React state)
    guillotineEnabled,        \* React state
    dynamicDecayEnabled,      \* React state
    winnersTaxEnabled,        \* React state
    uiSnapshot,               \* uiSnapshot (React state): the values stored by the last syncUI
    detached,                 \* Player objects that left the queue and are still referenced
                              \* by uiSnapshot, with their current field values
    isConnected,              \* UserDapp: isConnected
    dappAmount,               \* UserDapp: amount (text of the amount field)
    userBalance,              \* UserDapp: userBalance
    status,                   \* status (React state): IDLE, RUNNING, PAUSED or COMPLETED
    analysis,                 \* analysis (React state): the text of the last audit
    isAnalyzing,              \* isAnalyzing (React state)
    apiKey,                   \* whether process.env.API_KEY is set
    ai,                       \* geminiService: whether the client object was built
    pendingAudit,             \* the analyzeRisk call the audit handler is awaiting
    txCount,                  \* reference contract: txCount
    roundActive,              \* reference contract: roundActive
    roundExpiry,              \* reference contract: roundExpiry
    blockTimestamp,           \* reference contract: block.timestamp
    lastDepositor,            \* reference contract: lastDepositor
    jackpotPool,              \* reference contract: jackpotPool
    contractQueue,            \* reference contract: queue
    healthFactor,             \* stats.healthFactor shown to the client, in hundredths
    lastTx,                   \* history: the most recent transaction of the contract
    settlements,              \* history: number of runs of _triggerRoundEnd
    variedTx,                 \* history: transactions other than the plain deposit
    nextOid,                  \* history: serial number of the next Player object
    retired,                  \* history: serials of the objects removed by the sweep
    cfgOps,                   \* history: number of operator changes so far
    autoCount,                \* history: number of auto-run deposits in this run
    rolls,                    \* history: number of random redraws in this run
    botsInjected,             \* history: bots injected in this run, by type
    last                      \* history: stages of the most recent operation

vars == <<queue, historyCount, historySum, totalDeposited, protocolBalance,
          jackpotBalance, currentRound, tickCount, currentRandomMultiplier,
          engineConfig, config, multiplier, strategy, guillotineEnabled,
          dynamicDecayEnabled, winnersTaxEnabled, uiSnapshot, detached,
          isConnected, dappAmount, userBalance, nextOid, retired, cfgOps, autoCount, rolls,
          botsInjected, last, status, analysis, isAnalyzing, apiKey, ai, pendingAudit,
          txCount, roundActive, roundExpiry, blockTimestamp, lastDepositor, jackpotPool,
          contractQueue, healthFactor, lastTx, settlements, variedTx>>

engineVars == <<queue, historyCount, historySum, totalDeposited, protocolBalance,
                jackpotBalance, currentRound, tickCount, currentRandomMultiplier,
                nextOid, retired, autoCount, rolls, botsInjected, last>>

uiVars == <<uiSnapshot, detached>>

dappVars == <<isConnected, dappAmount, userBalance>>

auditVars == <<analysis, isAnalyzing, apiKey, ai, pendingAudit>>

contractVars == <<txCount, roundActive, roundExpiry, blockTimestamp, lastDepositor,
                  jackpotPool, contractQueue, healthFactor, lastTx, settlements, variedTx>>

\* what the engine and its controls never touch
restVars == <<auditVars, contractVars>>

(***************************************************************************)
(* Program constants                                                       *)
(***************************************************************************)
INITIAL_SEED_AMOUNT == 100000
DAILY_DRIP_INTERVAL == 240
AUTO_PAUSE_TICKS == 30 * DAILY_DRIP_INTERVAL
EPSILON == 1
MIN_FEE == 100
DRIP_GUARD == 100
MIN_QUEUE_FOR_SLASH == 5
CANDIDATE_POOL == 30
MAX_VICTIMS == 10
FAST_FILL_ROUNDS == 10
DECAY_STEP_USERS == 10
YIELD_PERCENT == 20
BOT_MULTIPLIER == 200
manualDepositAmount == 10000
SNAPSHOT_SLICE == 8

(***************************************************************************)
(* Bounds of the model                                                     *)
(***************************************************************************)
MaxTick == 241        \* deposits processed in one run
ShortTicks == 5       \* auto-run (random amount) deposits happen in the first ticks only;
                      \* a run that used them ends one deposit later
MaxCfgOps == 2        \* operator changes before a run
LongCfgOps == 1       \* operator changes before a run that goes on to MaxTick
ShortTx == 3          \* contract transactions that may vary (sender, amount, exits, time)
MaxVaried == 2        \* varied contract transactions in one round
LongVaried == 0       \* varied contract transactions before a round that goes on to the cap
MaxTime == 288        \* block.timestamp, in units of ten minutes
EarlyPositions == 40  \* positions (by serial) whose retirement is awaited within MaxTick
PauseOvershoot == 1   \* deposits followed past AUTO_PAUSE_TICKS
MaxQueue == 70        \* queue length up to which a whole cycle is followed
SlashTicks == 71      \* deposits of an auto run that is followed through the sweeps
MaxRolls == 1         \* random redraws that are free; later redraws take the low draw

AutoAmounts == {95000}             \* values of floor(random*990)+10 that are followed
RandomDraws == {0, 50}             \* values of Math.random(), in percent
SlashDraws == {0, 99}              \* values of Math.random() in the victim loop, in percent
LongIntervalChoices == {8, 70}       \* typed guillotine intervals of the long auto runs
FeeChoices == {0, 50}              \* fee slider positions (0% and 5%)
DripChoices == {100}               \* drip slider positions
IntervalChoices == {2}             \* typed guillotine intervals
RandomMaxChoices == {150}          \* typed random-decay maxima
JackpotChoices == {100}            \* jackpot frequency slider positions
MultiplierChoices == {120}         \* base multiplier slider positions
TaxFrequencyChoices == {10}
ReserveChoices == {0}              \* initial reserve slider positions

STANDARD == "STANDARD"
COMMUNITY_YIELD == "COMMUNITY_YIELD"

Max(a, b) == IF a >= b THEN a ELSE b
Min(a, b) == IF a <= b THEN a ELSE b

RECURSIVE SumNeed(_)
\* (sums over a sequence are taken by halves)
SumNeed(q) ==
    IF Len(q) = 0 THEN 0
    ELSE IF Len(q) = 1 THEN Max(0, q[1].target - q[1].collected)
    ELSE SumNeed(SubSeq(q, 1, Len(q) \div 2))
         + SumNeed(SubSeq(q, Len(q) \div 2 + 1, Len(q)))

RECURSIVE SumCollected(_)
SumCollected(q) ==
    IF Len(q) = 0 THEN 0
    ELSE IF Len(q) = 1 THEN q[1].collected
    ELSE SumCollected(SubSeq(q, 1, Len(q) \div 2))
         + SumCollected(SubSeq(q, Len(q) \div 2 + 1, Len(q)))

Need(p) == p.target - p.collected

(***************************************************************************)
(* Construction                                                            *)
(***************************************************************************)
SeedId == [kind |-> "PROTOCOL_SEED", n |-> 0]

DefaultConfig ==
    [ feePercent |-> 10,
      guillotineStrength |-> 20,
      guillotineThreshold |-> 90000,
      guillotineInterval |-> 60,
      winnersTaxRate |-> 20,
      winnersTaxFrequency |-> 10,
      dailyDripRate |-> 10,
      decayRate |-> 5,
      decayMinPercent |-> 5,
      decayMaxPercent |-> 40,
      randomDecayEnabled |-> FALSE,
      randomDecayMin |-> 120,
      randomDecayMax |-> 250,
      randomDecayFrequency |-> 10,
      initialReserve |-> 3000000,
      taxBotEnabled |-> FALSE,
      taxBotFrequency |-> 100,
      taxBotAmount |-> 50000,
      jackpotFrequency |-> 1000,
      jackpotAmount |-> 100000 ]

SeedPlayer ==
    [ oid |-> 0, id |-> SeedId,
      deposit |-> INITIAL_SEED_AMOUNT,
      target |-> INITIAL_SEED_AMOUNT * 2,
      collected |-> 0,
      entryRound |-> 1,
      slashed |-> FALSE,
      multiplier |-> 200,
      isTaxTarget |-> FALSE,
      fastFilled |-> FALSE ]

NoOp(name) == [op |-> name]

\* the engine object built at construction and by handleFullReset
FreshEngine(cfg) ==
    [ queue |-> <<SeedPlayer>>,
      historyCount |-> 0,
      historySum |-> 0,
      totalDeposited |-> INITIAL_SEED_AMOUNT,
      protocolBalance |-> cfg.initialReserve,
      jackpotBalance |-> 0,
      currentRound |-> 1,
      tickCount |-> 0,
      currentRandomMultiplier |-> 200 ]

\* the fields of engine.current that syncUI reads
EngineState ==
    [ queue |-> queue,
      historyCount |-> historyCount,
      historySum |-> historySum,
      totalDeposited |-> totalDeposited,
      protocolBalance |-> protocolBalance,
      jackpotBalance |-> jackpotBalance,
      currentRound |-> currentRound,
      tickCount |-> tickCount,
      config |-> engineConfig ]

\* the value syncUI passes to setUiSnapshot when the engine is in state e
SyncUIValue(e) ==
    [ queueSlice |-> SubSeq(e.queue, 1, Min(SNAPSHOT_SLICE, Len(e.queue))),
      stats |-> [ totalDeposited |-> e.totalDeposited,
                  totalPaidOut |-> e.historySum,
                  totalUsers |-> e.historyCount + Len(e.queue),
                  usersPaidExit |-> e.historyCount,
                  usersTrapped |-> Len(e.queue),
                  currentQueueLength |-> Len(e.queue),
                  currentRound |-> e.currentRound,
                  strategy |-> strategy,
                  multiplier |-> multiplier,
                  protocolBalance |-> e.protocolBalance,
                  jackpotBalance |-> e.jackpotBalance,
                  guillotineEnabled |-> guillotineEnabled,
                  dynamicDecayEnabled |-> dynamicDecayEnabled,
                  winnersTaxEnabled |-> winnersTaxEnabled,
                  config |-> e.config,
                  isAutoPaused |-> e.tickCount >= AUTO_PAUSE_TICKS ],
      headPlayer |-> IF Len(e.queue) > 0 THEN <<e.queue[1]>> ELSE <<>> ]

\* the initial value of the uiSnapshot state (isAutoPaused is absent there: falsy)
InitialSnapshot ==
    [ queueSlice |-> <<>>,
      stats |-> [ totalDeposited |-> 0,
                  totalPaidOut |-> 0,
                  totalUsers |-> 0,
                  usersPaidExit |-> 0,
                  usersTrapped |-> 0,
                  currentQueueLength |-> 0,
                  currentRound |-> 1,
                  strategy |-> STANDARD,
                  multiplier |-> 200,
                  protocolBalance |-> DefaultConfig.initialReserve,
                  jackpotBalance |-> 0,
                  guillotineEnabled |-> FALSE,
                  dynamicDecayEnabled |-> FALSE,
                  winnersTaxEnabled |-> FALSE,
                  config |-> DefaultConfig,
                  isAutoPaused |-> FALSE ],
      headPlayer |-> <<>> ]

\* serials of the Player objects the stored snapshot refers to
SnapRefs ==
    {uiSnapshot.queueSlice[i].oid : i \in 1..Len(uiSnapshot.queueSlice)}
        \cup {uiSnapshot.headPlayer[i].oid : i \in 1..Len(uiSnapshot.headPlayer)}

\* objects of the stored snapshot that the sweep of this deposit removed from
\* the queue: they stay reachable through the snapshot with their last values
DetachedAfter(exits) ==
    detached \cup {exits[k] : k \in {j \in 1..Len(exits) : exits[j].oid \in SnapRefs}}

NoBots == [JACKPOT |-> 0, TAX |-> 0]

INITIAL_USER_BALANCE == 500000

\* the state after construction, but for the distribution strategy
\* SimulationStatus
IDLE == "IDLE"
RUNNING == "RUNNING"
PAUSED == "PAUSED"
COMPLETED == "COMPLETED"

(***************************************************************************)
(* Reference contract X2GetherProtocol, the Solidity text shown by         *)
(* src/components/SmartContractViewer.tsx.  Token amounts are in           *)
(* hundredths of a USDC, times in units of ten minutes; the amounts        *)
(* followed make every division of the contract exact.                     *)
(***************************************************************************)
entryFeePercent == 50
MAX_DEPOSIT == 100000
MAX_TX_PER_ROUND == 1000
EXIT_PENALTY == 20
ROUND_DURATION == 144
TIMER_EXTENSION == 1
CONTRACT_MULT == 200

\* address(0)
ZeroAddress == "0x0"

\* the state the constructor leaves
ContractInit ==
    /\ txCount = 0
    /\ roundActive = TRUE
    /\ roundExpiry = ROUND_DURATION
    /\ blockTimestamp = 0
    /\ lastDepositor = ZeroAddress
    /\ jackpotPool = 0
    /\ contractQueue = <<>>
    /\ healthFactor = 100
    /\ lastTx = [op |-> "constructor"]
    /\ settlements = 0
    /\ variedTx = 0

EngineInit ==
    /\ config = DefaultConfig
    /\ engineConfig = DefaultConfig
    /\ uiSnapshot = InitialSnapshot
    /\ detached = {}
    /\ isConnected = FALSE
    /\ dappAmount = "100"
    /\ userBalance = INITIAL_USER_BALANCE
    /\ botsInjected = NoBots
    /\ multiplier = 200
    /\ guillotineEnabled = FALSE
    /\ dynamicDecayEnabled = FALSE
    /\ winnersTaxEnabled = FALSE
    /\ queue = FreshEngine(DefaultConfig).queue
    /\ historyCount = FreshEngine(DefaultConfig).historyCount
    /\ historySum = FreshEngine(DefaultConfig).historySum
    /\ totalDeposited = FreshEngine(DefaultConfig).totalDeposited
    /\ protocolBalance = FreshEngine(DefaultConfig).protocolBalance
    /\ jackpotBalance = FreshEngine(DefaultConfig).jackpotBalance
    /\ currentRound = FreshEngine(DefaultConfig).currentRound
    /\ tickCount = FreshEngine(DefaultConfig).tickCount
    /\ currentRandomMultiplier = FreshEngine(DefaultConfig).currentRandomMultiplier
    /\ nextOid = 1
    /\ retired = {}
    /\ cfgOps = 0
    /\ autoCount = 0
    /\ rolls = 0
    /\ last = NoOp("init")
    /\ status = IDLE
    /\ analysis = ""
    /\ isAnalyzing = FALSE
    /\ pendingAudit = "none"
    /\ ContractInit

Init ==
    /\ EngineInit
    /\ strategy = STANDARD
    /\ apiKey = FALSE
    /\ ai = FALSE

\* processDeposit under either value of DistributionStrategy.  No control of
\* App.tsx calls setStrategy; the engine is given the value at construction.
InitStrategy ==
    /\ EngineInit
    /\ strategy \in {STANDARD, COMMUNITY_YIELD}
    /\ apiKey = FALSE
    /\ ai = FALSE

(***************************************************************************)
(* triggerGuillotine                                                       *)
(***************************************************************************)
IsBot(p) == p.id.kind \in {"JACKPOT_BOT", "TAX_BOT"}

\* variant: the protocol seed is not excluded from the candidates
Eligible_NoSeedCheck(p, cfg) ==
    /\ ~p.slashed
    /\ ~IsBot(p)
    /\ p.deposit > cfg.guillotineThreshold

\* variant: a position already slashed can be selected again
Eligible_SlashedToo(p, cfg) ==
    /\ ~IsBot(p)
    /\ p.id # SeedId
    /\ p.deposit > cfg.guillotineThreshold

Eligible(p, cfg) ==
    /\ ~p.slashed
    /\ ~IsBot(p)
    /\ p.id # SeedId
    /\ p.deposit > cfg.guillotineThreshold

\* rank of queue index i in the copy sorted by descending remaining liability
\* (Array.prototype.sort is stable: ties keep queue order)
SortRank(q, C, i) ==
    Cardinality({j \in C : \/ Need(q[j]) > Need(q[i])
                           \/ (Need(q[j]) = Need(q[i]) /\ j < i)})

\* variant: the sorted candidates are not cut to the pool size
Candidates_NoSlice(q, cfg) == {i \in 1..Len(q) : Eligible(q[i], cfg)}

Candidates(q, cfg) ==
    LET C == {i \in 1..Len(q) : Eligible(q[i], cfg)}
    IN  {i \in C : SortRank(q, C, i) < CANDIDATE_POOL}

\* the candidates as the sorted, sliced array: queue indices by rank
RECURSIVE PoolFrom(_, _, _, _)
PoolFrom(q, C, r, n) ==
    IF r >= n THEN <<>>
    ELSE <<CHOOSE i \in C : SortRank(q, C, i) = r>> \o PoolFrom(q, C, r + 1, n)

CandidatePool(q, cfg) ==
    LET C == {i \in 1..Len(q) : Eligible(q[i], cfg)}
    IN  PoolFrom(q, C, 0, Cardinality(Candidates(q, cfg)))

RemoveAt(pool, k) == SubSeq(pool, 1, k - 1) \o SubSeq(pool, k + 1, Len(pool))

\* the loop `for (i = 0; i < 10; i++)`: iteration i draws a (i even) or b (i
\* odd) as Math.random(), in percent, and splices the drawn entry out of the pool
RECURSIVE PickVictims(_, _, _, _)
PickVictims(pool, a, b, i) ==
    IF i >= MAX_VICTIMS \/ Len(pool) = 0 THEN {}
    ELSE LET r         == IF i % 2 = 0 THEN a ELSE b
             randIndex == (r * Len(pool)) \div 100
         IN  {pool[randIndex + 1]} \cup PickVictims(RemoveAt(pool, randIndex + 1), a, b, i + 1)

\* the sets of queue indices the random loop can pick: all candidates when
\* there are at most MAX_VICTIMS, otherwise the picks of the draws followed
VictimSets(q, cfg) ==
    IF Len(q) < MIN_QUEUE_FOR_SLASH THEN {{}}
    ELSE LET C == Candidates(q, cfg)
         IN  IF Cardinality(C) <= MAX_VICTIMS THEN {C}
             ELSE {PickVictims(CandidatePool(q, cfg), a, b, 0) : a \in SlashDraws, b \in SlashDraws}

\* variant: the target is cut to the slash percentage instead of by it
SlashedTarget_ToStrength(p, cfg) == (p.target * cfg.guillotineStrength) \div 100

SlashedTarget(p, cfg) == (p.target * (100 - cfg.guillotineStrength)) \div 100

Slash(p, cfg) == [p EXCEPT !.target = SlashedTarget(p, cfg), !.slashed = TRUE]

RECURSIVE SlashAll(_, _, _, _)
SlashAll(q, V, cfg, i) ==
    IF i > Len(q) THEN q
    ELSE SlashAll(IF i \in V THEN [q EXCEPT ![i] = Slash(q[i], cfg)] ELSE q, V, cfg, i + 1)

TriggerGuillotine(q, V, cfg) == SlashAll(q, V, cfg, 1)

ExactGuillotine(q, V, cfg) ==
    \A i \in V : (q[i].target * (100 - cfg.guillotineStrength)) % 100 = 0

(***************************************************************************)
(* FIFO head-fill loop (shared by triggerDailyDrip and processDeposit)     *)
(***************************************************************************)
\* variant: a position the pool cannot fill completely is passed over
RECURSIVE HeadFill_SkipPartial(_, _, _)
HeadFill_SkipPartial(q, i, remaining) ==
    IF i > Len(q) \/ remaining <= 0 THEN q
    ELSE LET needed == q[i].target - q[i].collected
         IN  IF needed <= 0 THEN HeadFill_SkipPartial(q, i + 1, remaining)
             ELSE IF remaining >= needed
                  THEN HeadFill_SkipPartial([q EXCEPT ![i].collected = @ + needed], i + 1, remaining - needed)
                  ELSE HeadFill_SkipPartial(q, i + 1, remaining)

\* one iteration of the loop: position p is offered what remains of the pool
FillOne(p, remaining) ==
    LET needed == p.target - p.collected
    IN  IF needed <= 0 THEN [queue |-> <<p>>, remaining |-> remaining]
        ELSE IF remaining >= needed
             THEN [queue |-> <<[p EXCEPT !.collected = @ + needed]>>,
                   remaining |-> remaining - needed]
             ELSE [queue |-> <<[p EXCEPT !.collected = @ + remaining]>>,
                   remaining |-> 0]

\* the iterations for the positions lo..hi, in order: the second half is
\* offered what the first half has left
RECURSIVE FillRange(_, _, _, _)
FillRange(q, lo, hi, remaining) ==
    IF lo > hi \/ remaining <= 0 THEN [queue |-> SubSeq(q, lo, hi), remaining |-> remaining]
    ELSE IF lo = hi THEN FillOne(q[lo], remaining)
    ELSE LET mid   == (lo + hi) \div 2
             left  == FillRange(q, lo, mid, remaining)
             right == FillRange(q, mid + 1, hi, left.remaining)
         IN  [queue |-> left.queue \o right.queue, remaining |-> right.remaining]

\* the loop from position i on, with the pool given
HeadFill(q, i, remaining) ==
    SubSeq(q, 1, i - 1) \o FillRange(q, i, Len(q), remaining).queue

(***************************************************************************)
(* triggerDailyDrip                                                        *)
(***************************************************************************)
DripRuns(q, balance) == ~(balance <= DRIP_GUARD \/ Len(q) = 0)

\* variant: the rate is taken as a whole number, not as a percentage
DripAmount_RateUnscaled(balance, cfg) == balance * cfg.dailyDripRate

DripAmount(balance, cfg) == (balance * cfg.dailyDripRate) \div 100

ExactDrip(q, balance, cfg) ==
    DripRuns(q, balance) => (balance * cfg.dailyDripRate) % 100 = 0

TriggerDailyDrip(q, balance, cfg) ==
    IF ~DripRuns(q, balance) THEN [queue |-> q, protocolBalance |-> balance]
    ELSE [queue |-> HeadFill(q, 1, DripAmount(balance, cfg)),
          protocolBalance |-> balance - DripAmount(balance, cfg)]

(***************************************************************************)
(* injectBot                                                               *)
(***************************************************************************)
BotPlayer(type, oid, hCount, round, cfg) ==
    LET deposit == IF type = "JACKPOT" THEN cfg.jackpotAmount ELSE cfg.taxBotAmount
    IN  [ oid |-> oid,
          id |-> [kind |-> IF type = "JACKPOT" THEN "JACKPOT_BOT" ELSE "TAX_BOT", n |-> hCount],
          deposit |-> deposit,
          target |-> (deposit * BOT_MULTIPLIER) \div 100,
          collected |-> 0,
          entryRound |-> round,
          slashed |-> FALSE,
          multiplier |-> BOT_MULTIPLIER,
          isTaxTarget |-> FALSE,
          fastFilled |-> FALSE ]

(***************************************************************************)
(* processDeposit, step by step                                            *)
(***************************************************************************)
EntryFee(amount, cfg) == (amount * cfg.feePercent) \div 1000

\* variant: no minimum fee
ActualFee_NoMinimum(amount, cfg) == EntryFee(amount, cfg)

ActualFee(amount, cfg) == Max(MIN_FEE, EntryFee(amount, cfg))

NetAmount(amount, isSystem, cfg) ==
    IF isSystem THEN amount ELSE amount - ActualFee(amount, cfg)

YieldPool(net, strat) ==
    IF strat = COMMUNITY_YIELD THEN (net * YIELD_PERCENT) \div 100 ELSE 0

HeadPool(net, strat) ==
    IF strat = COMMUNITY_YIELD THEN (net * (100 - YIELD_PERCENT)) \div 100 ELSE net

RandomActive(cfg, isSystem) == cfg.randomDecayEnabled /\ ~isSystem

RollsNow(cfg, isSystem, totalUsers) ==
    /\ RandomActive(cfg, isSystem)
    /\ totalUsers > 0
    /\ totalUsers % cfg.randomDecayFrequency = 0

RandomValue(cfg, r) ==
    cfg.randomDecayMin + ((cfg.randomDecayMax - cfg.randomDecayMin) * r) \div 100

\* engine.currentRandomMultiplier after step 3A
RandomMultiplierAfter(crm, cfg, mult, isSystem, totalUsers, r) ==
    IF ~RandomActive(cfg, isSystem) THEN crm
    ELSE LET rolled == IF RollsNow(cfg, isSystem, totalUsers) THEN RandomValue(cfg, r) ELSE crm
         IN  IF rolled = 0 THEN mult ELSE rolled

DecayReduction(len, mult, cfg) ==
    LET decayFactor  == (len \div DECAY_STEP_USERS) * cfg.decayRate
        maxReduction == (mult * cfg.decayMaxPercent) \div 100
        minReduction == (mult * cfg.decayMinPercent) \div 100
        capped       == IF decayFactor > maxReduction THEN maxReduction ELSE decayFactor
    IN  IF capped < minReduction /\ len > DECAY_STEP_USERS THEN minReduction ELSE capped

EffectiveMultiplier(crmAfter, len, mult, decayOn, isSystem, cfg) ==
    IF RandomActive(cfg, isSystem) THEN crmAfter
    ELSE IF decayOn /\ ~isSystem THEN mult - DecayReduction(len, mult, cfg)
    ELSE mult

IsTaxTargetFlag(taxOn, isSystem, hCount, len, cfg) ==
    taxOn /\ ~isSystem /\ ((hCount + len + 1) % cfg.winnersTaxFrequency = 0)

NewPlayer(oid, amount, isSystem, eff, round, taxFlag) ==
    [ oid |-> oid,
      id |-> IF isSystem THEN SeedId ELSE [kind |-> "USER", n |-> oid],
      deposit |-> amount,
      target |-> (amount * eff) \div 100,
      collected |-> 0,
      entryRound |-> round,
      slashed |-> FALSE,
      multiplier |-> eff,
      isTaxTarget |-> taxFlag,
      fastFilled |-> FALSE ]

RECURSIVE AddShare(_, _, _)
AddShare(q, yieldShare, i) ==
    IF i > Len(q) THEN q
    ELSE AddShare([q EXCEPT ![i].collected = @ + yieldShare], yieldShare, i + 1)

DistributeYield(q, yieldPool) ==
    IF yieldPool > 0 /\ Len(q) > 0
    THEN AddShare(q, yieldPool \div Len(q), 1)
    ELSE q

\* variant: unshift instead of push
PushPlayer_AtHead(q, p) == <<p>> \o q

PushPlayer(q, p) == Append(q, p)

\* variant: the user counter is read before the new position is pushed
InjectBots_CountBeforePush(q, oid, hCount, round, cfg) ==
    LET totalUsers == hCount + Len(q) - 1
        jackpot == totalUsers > 0 /\ totalUsers % cfg.jackpotFrequency = 0
        tax     == cfg.taxBotEnabled /\ totalUsers > 0 /\ totalUsers % cfg.taxBotFrequency = 0
        q1      == IF jackpot THEN PushPlayer(q, BotPlayer("JACKPOT", oid, hCount, round, cfg)) ELSE q
        oid1    == IF jackpot THEN oid + 1 ELSE oid
    IN  IF tax THEN PushPlayer(q1, BotPlayer("TAX", oid1, hCount, round, cfg)) ELSE q1

\* step 8 and the bot injections that follow it
InjectBots(q, oid, hCount, round, cfg) ==
    LET totalUsers == hCount + Len(q)
        jackpot == totalUsers > 0 /\ totalUsers % cfg.jackpotFrequency = 0
        tax     == cfg.taxBotEnabled /\ totalUsers > 0 /\ totalUsers % cfg.taxBotFrequency = 0
        q1      == IF jackpot THEN PushPlayer(q, BotPlayer("JACKPOT", oid, hCount, round, cfg)) ELSE q
        oid1    == IF jackpot THEN oid + 1 ELSE oid
    IN  IF tax THEN PushPlayer(q1, BotPlayer("TAX", oid1, hCount, round, cfg)) ELSE q1

BotDeposits(qBefore, qAfter) ==
    LET RECURSIVE S(_)
        S(i) == IF i > Len(qAfter) THEN 0 ELSE qAfter[i].deposit + S(i + 1)
    IN  S(Len(qBefore) + 1)

\* step 9
\* variant: a position filled exactly to its target is kept
Retires_StrictlyAbove(p) == p.collected > p.target

Retires(p) == p.collected >= p.target - EPSILON

ExitClamp(p) == [p EXCEPT !.collected = p.target]

\* credit to the protocol reserve when the (clamped) position p leaves
ReserveCredit(p, cfg) ==
    IF p.id = SeedId THEN p.collected
    ELSE IF p.id.kind = "JACKPOT_BOT" THEN 0
    ELSE IF p.id.kind = "TAX_BOT" THEN p.collected - p.deposit
    ELSE IF p.isTaxTarget /\ p.collected - p.deposit > 0
         THEN ((p.collected - p.deposit) * cfg.winnersTaxRate) \div 100
         ELSE 0

\* variant: the bot's whole payout is credited, not its profit
JackpotCredit_WholePayout(p) ==
    IF p.id # SeedId /\ p.id.kind = "JACKPOT_BOT" THEN p.collected ELSE 0

JackpotCredit(p) ==
    IF p.id # SeedId /\ p.id.kind = "JACKPOT_BOT" THEN p.collected - p.deposit ELSE 0

Survivor(p, round) ==
    IF round - p.entryRound < FAST_FILL_ROUNDS THEN [p EXCEPT !.fastFilled = TRUE] ELSE p

RECURSIVE SumReserveCredit(_, _)
SumReserveCredit(ex, cfg) ==
    IF Len(ex) = 0 THEN 0
    ELSE IF Len(ex) = 1 THEN ReserveCredit(ex[1], cfg)
    ELSE SumReserveCredit(SubSeq(ex, 1, Len(ex) \div 2), cfg)
         + SumReserveCredit(SubSeq(ex, Len(ex) \div 2 + 1, Len(ex)), cfg)

RECURSIVE SumJackpotCredit(_)
SumJackpotCredit(ex) ==
    IF Len(ex) = 0 THEN 0
    ELSE IF Len(ex) = 1 THEN JackpotCredit(ex[1])
    ELSE SumJackpotCredit(SubSeq(ex, 1, Len(ex) \div 2))
         + SumJackpotCredit(SubSeq(ex, Len(ex) \div 2 + 1, Len(ex)))

RECURSIVE SumTarget(_)
SumTarget(ex) ==
    IF Len(ex) = 0 THEN 0
    ELSE IF Len(ex) = 1 THEN ex[1].target
    ELSE SumTarget(SubSeq(ex, 1, Len(ex) \div 2))
         + SumTarget(SubSeq(ex, Len(ex) \div 2 + 1, Len(ex)))

\* the for-loop of step 9 over the positions lo..hi of q.  The iterations are
\* independent of each other, so the range is visited in two halves.
RECURSIVE SweepFrom(_, _, _, _)
SweepFrom(q, round, lo, hi) ==
    IF lo > hi THEN [queue |-> <<>>, leaving |-> <<>>, exits |-> <<>>]
    ELSE IF lo = hi
         THEN IF Retires(q[lo])
              THEN [queue |-> <<>>, leaving |-> <<q[lo]>>, exits |-> <<ExitClamp(q[lo])>>]
              ELSE [queue |-> <<Survivor(q[lo], round)>>, leaving |-> <<>>, exits |-> <<>>]
         ELSE LET mid   == (lo + hi) \div 2
                  left  == SweepFrom(q, round, lo, mid)
                  right == SweepFrom(q, round, mid + 1, hi)
              IN  [queue |-> left.queue \o right.queue,
                   leaving |-> left.leaving \o right.leaving,
                   exits |-> left.exits \o right.exits]

\* variant: the seed's exit is not counted among the retired positions
CleanupSweep_SeedNotCounted(q, round) ==
    LET RECURSIVE Users(_)
        Users(ex) == IF Len(ex) = 0 THEN <<>>
                     ELSE (IF Head(ex).id = SeedId THEN <<>> ELSE <<Head(ex)>>) \o Users(Tail(ex))
        s == SweepFrom(q, round, 1, Len(q))
    IN  [s EXCEPT !.exits = Users(s.exits)]

CleanupSweep(q, round) == SweepFrom(q, round, 1, Len(q))

\* the timed events of a deposit that brings the tick counter to tick
SlashDue(enabled, tick, cfg) == enabled /\ tick % cfg.guillotineInterval = 0

\* variant: the drip comes one deposit late
DripDue_OneLate(tick) == tick % DAILY_DRIP_INTERVAL = 1

DripDue(tick) == tick % DAILY_DRIP_INTERVAL = 0

RECURSIVE CountKind(_, _, _)
CountKind(q, from, kind) ==
    IF from > Len(q) THEN 0
    ELSE (IF q[from].id.kind = kind THEN 1 ELSE 0) + CountKind(q, from + 1, kind)

\* every product and quotient of this deposit is exact in the model's fixed point
ExactDeposit(amount, isSystem, cfg, strat, mult, decayOn, r, qG, V, balance, dripNow, net, eff, qY0, exits) ==
    /\ ExactGuillotine(qG, V, cfg)
    /\ dripNow => ExactDrip(qG, balance, cfg)
    /\ ~isSystem => (amount * cfg.feePercent) % 1000 = 0
    /\ strat = COMMUNITY_YIELD =>
          /\ (net * YIELD_PERCENT) % 100 = 0
          /\ Len(qY0) > 0 => YieldPool(net, strat) % Len(qY0) = 0
    /\ RandomActive(cfg, isSystem) =>
          ((cfg.randomDecayMax - cfg.randomDecayMin) * r) % 100 = 0
    /\ (decayOn /\ ~RandomActive(cfg, isSystem)) =>
          /\ (mult * cfg.decayMaxPercent) % 100 = 0
          /\ (mult * cfg.decayMinPercent) % 100 = 0
    /\ (amount * eff) % 100 = 0
    /\ \A i \in 1..Len(exits) :
          ((exits[i].collected - exits[i].deposit) * cfg.winnersTaxRate) % 100 = 0

\* The history variables (last, retired) follow a run up to MaxTick.
ProcessDeposit(amount, isSystem) ==
    LET cfg      == engineConfig
        tick     == tickCount + 1
        slashNow == SlashDue(guillotineEnabled, tick, cfg)
        dripNow  == DripDue(tick)
        users0   == historyCount + Len(queue)
        rollNow  == RollsNow(cfg, isSystem, users0)
    IN
    \E V \in (IF slashNow THEN VictimSets(queue, cfg) ELSE {{}}) :
    \E r \in (IF rollNow /\ rolls < MaxRolls THEN RandomDraws ELSE {0}) :
      LET \* --- timed events
          qG    == IF slashNow THEN TriggerGuillotine(queue, V, cfg) ELSE queue
          drip  == IF dripNow THEN TriggerDailyDrip(qG, protocolBalance, cfg)
                   ELSE [queue |-> qG, protocolBalance |-> protocolBalance]
          qD    == drip.queue
          pbD   == drip.protocolBalance
          \* --- 1. fee
          fee   == IF isSystem THEN 0 ELSE ActualFee(amount, cfg)
          net   == NetAmount(amount, isSystem, cfg)
          pbF   == pbD + fee
          \* --- 2. pools
          yieldPool == YieldPool(net, strategy)
          headPool  == HeadPool(net, strategy)
          \* --- 3. multiplier
          crm   == RandomMultiplierAfter(currentRandomMultiplier, cfg, multiplier, isSystem, users0, r)
          eff   == EffectiveMultiplier(crm, Len(qD), multiplier, dynamicDecayEnabled, isSystem, cfg)
          \* --- 4, 5. new player
          taxFlag   == IsTaxTargetFlag(winnersTaxEnabled, isSystem, historyCount, Len(qD), cfg)
          newPlayer == NewPlayer(nextOid, amount, isSystem, eff, currentRound, taxFlag)
          \* --- 6, 7. distribution
          qY    == DistributeYield(qD, yieldPool)
          qH    == HeadFill(qY, 1, headPool)
          \* --- 8. push, bots
          qN    == PushPlayer(qH, newPlayer)
          qP    == InjectBots(qN, nextOid + 1, historyCount, currentRound, cfg)
          \* --- 9. cleanup sweep
          sweep == CleanupSweep(qP, currentRound)
      IN
      /\ ExactDeposit(amount, isSystem, cfg, strategy, multiplier, dynamicDecayEnabled, r,
                      queue, V, protocolBalance, dripNow, net, eff, qD, sweep.exits)
      /\ tickCount' = tick
      /\ queue' = sweep.queue
      /\ historyCount' = historyCount + Len(sweep.exits)
      /\ historySum' = historySum + SumTarget(sweep.exits)
      /\ totalDeposited' = totalDeposited + amount + BotDeposits(qN, qP)
      /\ protocolBalance' = pbF + SumReserveCredit(sweep.exits, cfg)
      /\ jackpotBalance' = jackpotBalance + SumJackpotCredit(sweep.exits)
      /\ currentRound' = currentRound + 1
      /\ currentRandomMultiplier' = crm
      /\ nextOid' = nextOid + 1 + (Len(qP) - Len(qN))
      /\ retired' = IF tick <= MaxTick
                     THEN retired \cup {sweep.exits[k].oid : k \in 1..Len(sweep.exits)}
                     ELSE retired
      /\ rolls' = IF rollNow THEN rolls + 1 ELSE rolls
      /\ botsInjected' = [JACKPOT |-> botsInjected.JACKPOT + CountKind(qP, Len(qN) + 1, "JACKPOT_BOT"),
                          TAX |-> botsInjected.TAX + CountKind(qP, Len(qN) + 1, "TAX_BOT")]
      /\ last' = IF tick <= MaxTick
                 THEN [ op |-> "processDeposit", amount |-> amount, isSystem |-> isSystem,
                        cfg |-> cfg, tick |-> tick, guillotineEnabled |-> guillotineEnabled,
                        hCount0 |-> historyCount, jb0 |-> jackpotBalance,
                        slashRan |-> slashNow, victims |-> {queue[i].oid : i \in V},
                        dripRan |-> dripNow /\ DripRuns(qG, protocolBalance),
                        q0 |-> queue, qG |-> qG, qD |-> qD,
                        pb0 |-> protocolBalance, pbD |-> pbD, pbF |-> pbF,
                        fee |-> fee, net |-> net,
                        yieldPool |-> yieldPool, headPool |-> headPool,
                        randomActive |-> RandomActive(cfg, isSystem), rolled |-> rollNow,
                        eff |-> eff,
                        qY |-> qY, qH |-> qH, qN |-> qN, qP |-> qP,
                        leaving |-> sweep.leaving, exits |-> sweep.exits ]
                 ELSE [op |-> "processDeposit", amount |-> amount, isSystem |-> isSystem,
                       tick |-> tick]
      /\ UNCHANGED <<engineConfig, config, multiplier, strategy, guillotineEnabled,
                     dynamicDecayEnabled, winnersTaxEnabled, cfgOps, restVars, status>>

(***************************************************************************)
(* Callers of processDeposit                                               *)
(***************************************************************************)
\* handleManualDeposit (Deposit button)
\* runs followed beyond ShortTicks: manual deposits only, after at most longOps changes
DepositAllowed(longOps) ==
    /\ tickCount < MaxTick
    /\ tickCount > ShortTicks => (autoCount = 0 /\ cfgOps <= longOps /\ status = IDLE)

\* variant: the snapshot is taken inside the deposit, before the cleanup sweep
ManualDepositUpTo_SnapshotBeforeSweep(longOps) ==
    /\ DepositAllowed(longOps)
    /\ status # COMPLETED
    /\ ProcessDeposit(manualDepositAmount, FALSE)
    /\ uiSnapshot' = SyncUIValue([EngineState' EXCEPT !.queue = last'.qP])
    /\ detached' = {}
    /\ UNCHANGED <<autoCount, dappVars>>

ManualDepositUpTo(longOps) ==
    /\ DepositAllowed(longOps)
    /\ status # COMPLETED
    /\ ProcessDeposit(manualDepositAmount, FALSE)
    /\ uiSnapshot' = SyncUIValue(EngineState')
    /\ detached' = {}
    /\ UNCHANGED <<autoCount, dappVars>>

ManualDeposit == ManualDepositUpTo(LongCfgOps)

\* the same button in the runs that are followed to the end of the cycle:
\* runs without auto deposits, with the timer idle until then, in which the
\* queue stays short
PauseRunAllowed ==
    /\ tickCount < AUTO_PAUSE_TICKS + PauseOvershoot
    /\ Len(queue) < MaxQueue
    /\ tickCount > ShortTicks => autoCount = 0
    /\ (tickCount > ShortTicks /\ tickCount < AUTO_PAUSE_TICKS) => status = IDLE

ManualDepositToPause ==
    /\ PauseRunAllowed
    /\ status # COMPLETED
    /\ ProcessDeposit(manualDepositAmount, FALSE)
    /\ uiSnapshot' = SyncUIValue(EngineState')
    /\ detached' = {}
    /\ UNCHANGED <<autoCount, dappVars>>

\* the same button in the runs that follow the bots
ManualDepositLong == ManualDepositUpTo(MaxCfgOps)

\* one firing of the auto-run interval timer
AutoDeposit ==
    /\ status = RUNNING
    /\ IF tickCount >= AUTO_PAUSE_TICKS
       THEN /\ status' = COMPLETED
            /\ UNCHANGED <<engineVars, uiVars, dappVars, restVars, engineConfig, config,
                           multiplier, strategy, guillotineEnabled, dynamicDecayEnabled,
                           winnersTaxEnabled, cfgOps>>
       ELSE /\ tickCount < ShortTicks
            /\ \E amount \in AutoAmounts : ProcessDeposit(amount, FALSE)
            /\ autoCount' = autoCount + 1
            /\ detached' = DetachedAfter(last'.exits)
            /\ UNCHANGED <<uiSnapshot, dappVars>>

\* the same timer callback in the runs that are followed through the slashing
\* sweeps: the amounts drawn alternate between two values above the threshold
RunAmount(tick) == IF tick % 2 = 0 THEN 95000 ELSE 99000

AutoDepositRun ==
    /\ status = RUNNING
    /\ tickCount < AUTO_PAUSE_TICKS
    /\ tickCount < SlashTicks
    /\ ProcessDeposit(RunAmount(tickCount + 1), FALSE)
    /\ autoCount' = autoCount + 1
    /\ detached' = DetachedAfter(last'.exits)
    /\ UNCHANGED <<uiSnapshot, dappVars>>

\* the Auto Run / Pause button; it is used before a run and at its end
AutoRunMayToggle == tickCount = 0 \/ tickCount >= AUTO_PAUSE_TICKS

ToggleAutoRun ==
    /\ AutoRunMayToggle
    /\ status # COMPLETED
    /\ status' = IF status = RUNNING THEN PAUSED ELSE RUNNING
    /\ UNCHANGED <<engineVars, uiVars, dappVars, restVars, engineConfig, config,
                   multiplier, strategy, guillotineEnabled, dynamicDecayEnabled,
                   winnersTaxEnabled, cfgOps>>

\* one firing of the 200 ms sync timer
SyncUI ==
    /\ uiSnapshot # SyncUIValue(EngineState)
    /\ uiSnapshot' = SyncUIValue(EngineState)
    /\ detached' = {}
    /\ UNCHANGED <<engineVars, dappVars, engineConfig, config, multiplier, strategy,
                   guillotineEnabled, dynamicDecayEnabled, winnersTaxEnabled, cfgOps, restVars, status>>

\* handleFullReset (Hard Reset System button)
FullReset ==
    /\ tickCount > 0 \/ engineConfig # config
    /\ engineConfig' = config
    /\ botsInjected' = NoBots
    /\ queue' = FreshEngine(config).queue
    /\ historyCount' = FreshEngine(config).historyCount
    /\ historySum' = FreshEngine(config).historySum
    /\ totalDeposited' = FreshEngine(config).totalDeposited
    /\ protocolBalance' = FreshEngine(config).protocolBalance
    /\ jackpotBalance' = FreshEngine(config).jackpotBalance
    /\ currentRound' = FreshEngine(config).currentRound
    /\ tickCount' = FreshEngine(config).tickCount
    /\ currentRandomMultiplier' = FreshEngine(config).currentRandomMultiplier
    /\ nextOid' = 1
    /\ retired' = {}
    /\ autoCount' = 0
    /\ rolls' = 0
    /\ last' = NoOp("reset")
    /\ UNCHANGED <<config, multiplier, strategy, guillotineEnabled,
                   dynamicDecayEnabled, winnersTaxEnabled, cfgOps, dappVars, restVars>>
    /\ status' = IDLE
    /\ uiSnapshot' = SyncUIValue(EngineState')
    /\ detached' = {}

(***************************************************************************)
(* UserDapp (src/components/UserDapp.tsx): the deposit form of an external *)
(* client.  The wallet address and the transaction hash it shows are       *)
(* display-only and are left out.                                          *)
(***************************************************************************)
maxDepositLimit == 100000

\* texts typed into the amount field that are followed
DappTexts == {"100", "1000", "1500", "6000", "0", "-50", "abc", "Infinity"}

Num(v) == [kind |-> "num", val |-> v]
NaN == [kind |-> "nan", val |-> 0]
Infinity == [kind |-> "inf", val |-> 0]

\* parseFloat on the followed texts, in hundredths
ParseFloat(text) ==
    CASE text = "100" -> Num(10000)
      [] text = "1000" -> Num(100000)
      [] text = "1500" -> Num(150000)
      [] text = "6000" -> Num(600000)
      [] text = "0" -> Num(0)
      [] text = "-50" -> Num(-5000)
      [] text = "Infinity" -> Infinity
      [] OTHER -> NaN

IsNaN(x) == x.kind = "nan"

\* x <= n and x > n for a JavaScript number x and a finite n
Leq(x, n) == x.kind = "num" /\ x.val <= n
Gt(x, n) == x.kind = "inf" \/ (x.kind = "num" /\ x.val > n)

\* variant: only an unparsable amount is refused
AmountRefused_NaNOnly(x) == IsNaN(x)

\* the amount check of handleDeposit
AmountRefused(x) == IsNaN(x) \/ Leq(x, 0)

\* the onDeposit callback of the component's parent: submit the deposit and
\* refresh the observable snapshot
OnDeposit(val) ==
    /\ ProcessDeposit(val, FALSE)
    /\ uiSnapshot' = SyncUIValue(EngineState')
    /\ detached' = {}
    /\ UNCHANGED autoCount

\* what handleDeposit leaves untouched when it returns early
DappDepositRefused(text) ==
    /\ last' = [op |-> "handleDeposit", text |-> text, tick |-> tickCount]
    /\ UNCHANGED <<queue, historyCount, historySum, totalDeposited, protocolBalance,
                   jackpotBalance, currentRound, tickCount, currentRandomMultiplier,
                   nextOid, retired, autoCount, rolls, botsInjected>>
    /\ UNCHANGED <<uiVars, dappVars, engineConfig, config, multiplier, strategy,
                   guillotineEnabled, dynamicDecayEnabled, winnersTaxEnabled, cfgOps, restVars, status>>

\* the form is used in the first ShortTicks deposits of a run
DappMayAct == tickCount < ShortTicks

HandleDeposit ==
    /\ DappMayAct
    /\ LET val == ParseFloat(dappAmount)
       IN  IF \/ ~isConnected
              \/ AmountRefused(val)
              \/ Gt(val, userBalance)
              \/ Gt(val, maxDepositLimit)
           THEN DappDepositRefused(dappAmount)
           ELSE /\ userBalance' = userBalance - val.val
                /\ OnDeposit(val.val)
                /\ UNCHANGED <<isConnected, dappAmount>>

\* the amount field; it is disabled while no wallet is connected
SetAmount ==
    /\ DappMayAct
    /\ isConnected
    /\ \E text \in DappTexts \ {dappAmount} : dappAmount' = text
    /\ UNCHANGED <<isConnected, userBalance, engineVars, uiVars, engineConfig, config,
                   multiplier, strategy, guillotineEnabled, dynamicDecayEnabled,
                   winnersTaxEnabled, cfgOps, restVars, status>>

HandleConnect ==
    /\ DappMayAct
    /\ ~isConnected
    /\ isConnected' = TRUE
    /\ UNCHANGED <<userBalance, dappAmount, engineVars, uiVars, engineConfig, config, multiplier,
                   strategy, guillotineEnabled, dynamicDecayEnabled, winnersTaxEnabled,
                   cfgOps, restVars, status>>

HandleDisconnect ==
    /\ DappMayAct
    /\ isConnected
    /\ isConnected' = FALSE
    /\ UNCHANGED <<userBalance, dappAmount, engineVars, uiVars, engineConfig, config, multiplier,
                   strategy, guillotineEnabled, dynamicDecayEnabled, winnersTaxEnabled,
                   cfgOps, restVars, status>>

(***************************************************************************)
(* Reference contract: transactions                                        *)
(***************************************************************************)
Wallets == {"alice", "bob"}
ContractAmounts == {10000, 100000, 200000}
TimeSteps == {72}
HealthChoices == {5, 100}

\* the plain transaction of a long round
PlainWallet == "alice"
PlainAmount == 10000

ContractPlayer(wallet, amount, target, mult) ==
    [ wallet |-> wallet, deposit |-> amount, collected |-> 0, target |-> target,
      multiplier |-> mult, isClient |-> TRUE, isUnlucky |-> FALSE ]

\* a queue slot after delete
DeletedPlayer ==
    [ wallet |-> ZeroAddress, deposit |-> 0, collected |-> 0, target |-> 0,
      multiplier |-> 0, isClient |-> FALSE, isUnlucky |-> FALSE ]

\* _distribute, whose body the text leaves out: the net amount goes to the
\* positions in queue order, each up to what it still needs
Distribute(q, netAmount) == FillRange(q, 1, Len(q), netAmount).queue

\* variant: only the amount is checked
DepositReverts_AmountOnly(amount) == amount > MAX_DEPOSIT

\* the require statements of deposit
DepositReverts(amount) ==
    \/ ~roundActive
    \/ ~(txCount < MAX_TX_PER_ROUND)
    \/ ~(amount <= MAX_DEPOSIT)
    \/ ~(blockTimestamp < roundExpiry)

\* _triggerRoundEnd: the prize it transfers to lastDepositor
RoundEndPrize == jackpotPool \div 2

ContractFrame ==
    UNCHANGED <<engineVars, uiVars, dappVars, auditVars, status, engineConfig, config,
                multiplier, strategy, guillotineEnabled, dynamicDecayEnabled,
                winnersTaxEnabled, cfgOps>>

\* how far the transactions are followed
TxAllowed(sender, amount) ==
    \/ /\ sender = PlainWallet
       /\ amount = PlainAmount
       /\ txCount >= ShortTx => variedTx <= LongVaried
    \/ /\ variedTx < MaxVaried
       /\ txCount < ShortTx \/ ~roundActive

Varied(sender, amount) == IF sender = PlainWallet /\ amount = PlainAmount THEN 0 ELSE 1

\* deposit(amount) sent by sender
ContractDeposit ==
    \E sender \in Wallets, amount \in ContractAmounts :
       /\ TxAllowed(sender, amount)
       /\ variedTx' = variedTx + Varied(sender, amount)
       /\ UNCHANGED <<blockTimestamp, healthFactor>>
       /\ ContractFrame
       /\ IF DepositReverts(amount)
          THEN /\ lastTx' = [op |-> "deposit", sender |-> sender, amount |-> amount,
                             reverted |-> TRUE, settled |-> FALSE, queued |-> FALSE,
                             prize |-> 0]
               /\ UNCHANGED <<txCount, roundActive, roundExpiry, lastDepositor, jackpotPool,
                              contractQueue, settlements>>
          ELSE IF txCount + 1 >= MAX_TX_PER_ROUND
          THEN /\ txCount' = txCount + 1
               /\ roundActive' = FALSE
               /\ settlements' = settlements + 1
               /\ lastTx' = [op |-> "deposit", sender |-> sender, amount |-> amount,
                             reverted |-> FALSE, settled |-> TRUE, queued |-> FALSE,
                             prize |-> RoundEndPrize]
               /\ UNCHANGED <<roundExpiry, lastDepositor, jackpotPool, contractQueue>>
          ELSE LET totalFee  == (amount * entryFeePercent) \div 1000
                   netAmount == amount - totalFee
                   target    == (amount * CONTRACT_MULT) \div 100
                   extended  == roundExpiry + TIMER_EXTENSION
               IN  /\ txCount' = txCount + 1
                   /\ roundExpiry' = IF extended > blockTimestamp + ROUND_DURATION
                                     THEN blockTimestamp + ROUND_DURATION ELSE extended
                   /\ lastDepositor' = sender
                   /\ jackpotPool' = jackpotPool + totalFee \div 2
                   /\ contractQueue' =
                         Distribute(Append(contractQueue,
                                           ContractPlayer(sender, amount, target, CONTRACT_MULT)),
                                    netAmount)
                   /\ lastTx' = [op |-> "deposit", sender |-> sender, amount |-> amount,
                                 reverted |-> FALSE, settled |-> FALSE, queued |-> TRUE,
                                 prize |-> 0]
                   /\ UNCHANGED <<roundActive, settlements>>

\* emergencyExit(index) sent by sender
EmergencyExit ==
    \E sender \in Wallets, index \in 0 .. ShortTx :
       /\ variedTx < MaxVaried
       /\ txCount <= ShortTx \/ ~roundActive
       /\ variedTx' = variedTx + 1
       /\ UNCHANGED <<txCount, roundActive, roundExpiry, blockTimestamp, lastDepositor,
                      jackpotPool, healthFactor, settlements>>
       /\ ContractFrame
       /\ IF \/ index >= Len(contractQueue)
             \/ contractQueue[index + 1].wallet # sender
             \/ ~(contractQueue[index + 1].collected < contractQueue[index + 1].deposit)
          THEN /\ lastTx' = [op |-> "emergencyExit", sender |-> sender, index |-> index,
                             reverted |-> TRUE, deposit |-> 0, penalty |-> 0, refund |-> 0,
                             health |-> healthFactor]
               /\ UNCHANGED contractQueue
          ELSE LET p       == contractQueue[index + 1]
                   penalty == (p.deposit * EXIT_PENALTY) \div 100
                   refund  == p.deposit - penalty
               IN  /\ contractQueue' = [contractQueue EXCEPT ![index + 1] = DeletedPlayer]
                   /\ lastTx' = [op |-> "emergencyExit", sender |-> sender, index |-> index,
                                 reverted |-> FALSE, deposit |-> p.deposit,
                                 penalty |-> penalty, refund |-> refund,
                                 health |-> healthFactor]

\* block.timestamp moves on between two transactions
TimePasses ==
    /\ variedTx < MaxVaried
    /\ txCount < ShortTx \/ ~roundActive
    /\ \E step \in TimeSteps :
          /\ blockTimestamp + step <= MaxTime
          /\ blockTimestamp' = blockTimestamp + step
    /\ variedTx' = variedTx + 1
    /\ UNCHANGED <<txCount, roundActive, roundExpiry, lastDepositor, jackpotPool,
                   contractQueue, healthFactor, lastTx, settlements>>
    /\ ContractFrame

\* the health the client is shown changes
HealthChanges ==
    /\ variedTx < MaxVaried
    /\ txCount < ShortTx \/ ~roundActive
    /\ \E h \in HealthChoices \ {healthFactor} : healthFactor' = h
    /\ variedTx' = variedTx + 1
    /\ UNCHANGED <<txCount, roundActive, roundExpiry, blockTimestamp, lastDepositor,
                   jackpotPool, contractQueue, lastTx, settlements>>
    /\ ContractFrame

(***************************************************************************)
(* The audit: handleAnalyze (src/App.tsx) and analyzeRisk                  *)
(* (services/geminiService).  The text the model generates is one value.   *)
(***************************************************************************)
API_KEY_NOT_FOUND == "Error: API Key not found."
API_KEY_MISSING == "API Key missing. Cannot generate analysis."
NO_ANALYSIS == "No analysis generated."
ANALYSIS_FAILED == "An error occurred while analyzing the simulation data."
GENERATED_TEXT == "<generated text>"

\* what generateContent does: a response with text, a response without text,
\* or a rejection
GenerateOutcomes == {"text", "empty", "rejected"}

Resolved(text) == [kind |-> "resolved", text |-> text]
Rejected == [kind |-> "rejected", text |-> ""]

\* variant: no catch around the request
AnalyzeRisk_NoCatch(call, outcome) ==
    IF call = "missing" THEN Resolved(API_KEY_MISSING)
    ELSE IF outcome = "rejected" THEN Rejected
    ELSE IF outcome = "empty" THEN Resolved(NO_ANALYSIS)
    ELSE Resolved(GENERATED_TEXT)

\* how the promise of analyzeRisk settles: call is "missing" when there is no
\* client and "request" when generateContent was called
AnalyzeRisk(call, outcome) ==
    IF call = "missing" THEN Resolved(API_KEY_MISSING)
    ELSE IF outcome = "rejected" THEN Resolved(ANALYSIS_FAILED)
    ELSE IF outcome = "empty" THEN Resolved(NO_ANALYSIS)
    ELSE Resolved(GENERATED_TEXT)

AuditFrame ==
    UNCHANGED <<engineVars, uiVars, dappVars, contractVars, status, engineConfig, config,
                multiplier, strategy, guillotineEnabled, dynamicDecayEnabled,
                winnersTaxEnabled, cfgOps, apiKey, ai>>

\* handleAnalyze up to its await; the Run Audit button is disabled during an
\* audit and while the snapshot shows no user.  Audits are started in the
\* first ShortTicks deposits of a run.
HandleAnalyze ==
    /\ tickCount < ShortTicks
    /\ ~isAnalyzing
    /\ pendingAudit = "none"
    /\ uiSnapshot.stats.totalUsers # 0
    /\ IF ~apiKey
       THEN /\ analysis' = API_KEY_NOT_FOUND
            /\ UNCHANGED <<isAnalyzing, pendingAudit>>
       ELSE /\ isAnalyzing' = TRUE
            /\ pendingAudit' = IF ai THEN "request" ELSE "missing"
            /\ UNCHANGED analysis
    /\ AuditFrame

\* the promise settles and handleAnalyze resumes after its await; a rejection
\* would leave the rest of the handler unexecuted
AuditSettles ==
    /\ pendingAudit # "none"
    /\ \E outcome \in GenerateOutcomes :
          LET result == AnalyzeRisk(pendingAudit, outcome)
          IN  IF result.kind = "resolved"
              THEN /\ analysis' = result.text
                   /\ isAnalyzing' = FALSE
              ELSE UNCHANGED <<analysis, isAnalyzing>>
    /\ pendingAudit' = "none"
    /\ AuditFrame

(***************************************************************************)
(* Operator controls                                                       *)
(***************************************************************************)
OperatorMayAct == cfgOps < MaxCfgOps /\ tickCount = 0

SetConfig(newcfg) ==
    /\ OperatorMayAct
    /\ newcfg # config
    /\ config' = newcfg
    /\ engineConfig' = newcfg
    /\ cfgOps' = cfgOps + 1
    /\ UNCHANGED <<multiplier, strategy, guillotineEnabled, dynamicDecayEnabled,
                   winnersTaxEnabled>>
    /\ UNCHANGED <<engineVars, uiVars, dappVars, restVars, status>>

SetFeePercent ==
    \E v \in FeeChoices : SetConfig([config EXCEPT !.feePercent = v])

SetDailyDripRate ==
    \E v \in DripChoices : SetConfig([config EXCEPT !.dailyDripRate = v])

ToggleRandomDecay ==
    SetConfig([config EXCEPT !.randomDecayEnabled = ~@])

SetRandomDecayMax ==
    /\ config.randomDecayEnabled
    /\ \E v \in RandomMaxChoices : SetConfig([config EXCEPT !.randomDecayMax = v])

ToggleTaxBot ==
    SetConfig([config EXCEPT !.taxBotEnabled = ~@])

\* The base-multiplier slider: setMultiplier, then the handleFullReset of the
\* current render, whose syncUI still shows the previous multiplier.  The
\* slider is used before a run.
SetMultiplier ==
    /\ tickCount = 0
    /\ \E v \in MultiplierChoices \ {multiplier} : multiplier' = v
    /\ status' = IDLE
    /\ engineConfig' = config
    /\ botsInjected' = NoBots
    /\ queue' = FreshEngine(config).queue
    /\ historyCount' = FreshEngine(config).historyCount
    /\ historySum' = FreshEngine(config).historySum
    /\ totalDeposited' = FreshEngine(config).totalDeposited
    /\ protocolBalance' = FreshEngine(config).protocolBalance
    /\ jackpotBalance' = FreshEngine(config).jackpotBalance
    /\ currentRound' = FreshEngine(config).currentRound
    /\ tickCount' = FreshEngine(config).tickCount
    /\ currentRandomMultiplier' = FreshEngine(config).currentRandomMultiplier
    /\ nextOid' = 1
    /\ retired' = {}
    /\ autoCount' = 0
    /\ rolls' = 0
    /\ last' = NoOp("reset")
    /\ UNCHANGED <<config, strategy, guillotineEnabled, dynamicDecayEnabled,
                   winnersTaxEnabled, cfgOps, dappVars, restVars>>
    /\ uiSnapshot' = SyncUIValue(EngineState')
    /\ detached' = {}

SetTaxBotFrequency ==
    /\ config.taxBotEnabled
    /\ \E v \in TaxFrequencyChoices : SetConfig([config EXCEPT !.taxBotFrequency = v])

\* The initial-reserve slider: setConfig, then (50 ms later) the handleFullReset
\* of the render in which the slider moved.  That closure still holds the
\* previous config, so the engine is rebuilt with the previous reserve and
\* keeps the previous config object until the next change or reset.  The two
\* callbacks are taken as one step.
SetInitialReserve ==
    /\ OperatorMayAct
    /\ \E v \in ReserveChoices :
          /\ v # config.initialReserve
          /\ config' = [config EXCEPT !.initialReserve = v]
    /\ engineConfig' = config
    /\ cfgOps' = cfgOps + 1
    /\ botsInjected' = NoBots
    /\ queue' = FreshEngine(config).queue
    /\ historyCount' = FreshEngine(config).historyCount
    /\ historySum' = FreshEngine(config).historySum
    /\ totalDeposited' = FreshEngine(config).totalDeposited
    /\ protocolBalance' = FreshEngine(config).protocolBalance
    /\ jackpotBalance' = FreshEngine(config).jackpotBalance
    /\ currentRound' = FreshEngine(config).currentRound
    /\ tickCount' = FreshEngine(config).tickCount
    /\ currentRandomMultiplier' = FreshEngine(config).currentRandomMultiplier
    /\ nextOid' = 1
    /\ retired' = {}
    /\ autoCount' = 0
    /\ rolls' = 0
    /\ last' = NoOp("reset")
    /\ UNCHANGED <<multiplier, strategy, guillotineEnabled, dynamicDecayEnabled,
                   winnersTaxEnabled, dappVars, restVars>>
    /\ status' = IDLE
    /\ uiSnapshot' = SyncUIValue(EngineState')
    /\ detached' = {}

SetJackpotFrequency ==
    \E v \in JackpotChoices : SetConfig([config EXCEPT !.jackpotFrequency = v])

SetGuillotineInterval ==
    /\ guillotineEnabled
    /\ \E v \in IntervalChoices : SetConfig([config EXCEPT !.guillotineInterval = v])

SetGuillotineIntervalLong ==
    /\ guillotineEnabled
    /\ \E v \in LongIntervalChoices : SetConfig([config EXCEPT !.guillotineInterval = v])

ToggleGuillotine ==
    /\ OperatorMayAct
    /\ guillotineEnabled' = ~guillotineEnabled
    /\ cfgOps' = cfgOps + 1
    /\ UNCHANGED <<config, multiplier, strategy, dynamicDecayEnabled, winnersTaxEnabled>>
    /\ UNCHANGED <<engineVars, uiVars, dappVars, engineConfig, restVars, status>>

ToggleDynamicDecay ==
    /\ OperatorMayAct
    /\ ~config.randomDecayEnabled
    /\ dynamicDecayEnabled' = ~dynamicDecayEnabled
    /\ cfgOps' = cfgOps + 1
    /\ UNCHANGED <<config, multiplier, strategy, guillotineEnabled, winnersTaxEnabled>>
    /\ UNCHANGED <<engineVars, uiVars, dappVars, engineConfig, restVars, status>>

ToggleWinnersTax ==
    /\ OperatorMayAct
    /\ winnersTaxEnabled' = ~winnersTaxEnabled
    /\ cfgOps' = cfgOps + 1
    /\ UNCHANGED <<config, multiplier, strategy, guillotineEnabled, dynamicDecayEnabled>>
    /\ UNCHANGED <<engineVars, uiVars, dappVars, engineConfig, restVars, status>>

Next ==
    \/ ManualDeposit
    \/ AutoDeposit
    \/ ToggleAutoRun
    \/ FullReset
    \/ SyncUI
    \/ SetFeePercent
    \/ SetDailyDripRate
    \/ ToggleRandomDecay
    \/ SetRandomDecayMax
    \/ ToggleTaxBot
    \/ SetGuillotineInterval
    \/ ToggleGuillotine
    \/ ToggleDynamicDecay
    \/ ToggleWinnersTax

Spec == Init /\ [][Next]_vars

SpecStrategy == InitStrategy /\ [][Next]_vars

\* long runs of manual deposits with the bot controls
NextBots ==
    \/ ManualDepositLong
    \/ FullReset
    \/ SetJackpotFrequency
    \/ SetDailyDripRate
    \/ ToggleRandomDecay
    \/ ToggleTaxBot

SpecBots == Init /\ [][NextBots]_vars

\* long runs of manual deposits with the reserve controls
NextReserve ==
    \/ ManualDeposit
    \/ FullReset
    \/ SetInitialReserve
    \/ SetDailyDripRate
    \/ SetFeePercent

SpecReserve == Init /\ [][NextReserve]_vars

\* the engine driven through the client form
NextDapp ==
    \/ HandleConnect
    \/ HandleDisconnect
    \/ SetAmount
    \/ HandleDeposit
    \/ FullReset

SpecDapp == Init /\ [][NextDapp]_vars

\* long auto runs with the guillotine
NextSlash ==
    \/ AutoDepositRun
    \/ ToggleAutoRun
    \/ FullReset
    \/ ToggleGuillotine
    \/ SetGuillotineIntervalLong

SpecSlash == Init /\ [][NextSlash]_vars

\* whole cycles of manual deposits, to the automatic pause
NextPause ==
    \/ ManualDepositToPause
    \/ AutoDeposit
    \/ ToggleAutoRun
    \/ FullReset
    \/ SetMultiplier
    \/ ToggleDynamicDecay
    \/ SetDailyDripRate

SpecPause == Init /\ [][NextPause]_vars

\* long runs of manual deposits with the tax bot controls
NextIds ==
    \/ ManualDepositLong
    \/ FullReset
    \/ ToggleTaxBot
    \/ SetTaxBotFrequency

SpecIds == Init /\ [][NextIds]_vars

\* runs in which the Deposit button keeps being pressed
NextProgress ==
    \/ ManualDepositLong
    \/ SetFeePercent
    \/ SetDailyDripRate
    \/ ToggleDynamicDecay

\* a press of the Deposit button, as the steps of NextProgress show it: the
\* guard of ManualDepositLong and the tick it counts
DepositPressed ==
    /\ DepositAllowed(MaxCfgOps)
    /\ status # COMPLETED
    /\ tickCount' = tickCount + 1

SpecProgress == Init /\ [][NextProgress]_vars /\ WF_tickCount(DepositPressed)

\* the audit beside a run of manual deposits
InitAudit ==
    /\ EngineInit
    /\ strategy = STANDARD
    /\ apiKey \in BOOLEAN
    /\ ai \in {a \in BOOLEAN : a => apiKey}

NextAudit ==
    \/ ManualDeposit
    \/ SyncUI
    \/ FullReset
    \/ HandleAnalyze
    \/ AuditSettles

\* a request to the API ends, with a response or with an error
SpecAudit == InitAudit /\ [][NextAudit]_vars /\ WF_vars(AuditSettles)

\* the reference contract
NextContract ==
    \/ ContractDeposit
    \/ EmergencyExit
    \/ TimePasses
    \/ HealthChanges

SpecContract == Init /\ [][NextContract]_vars

(***************************************************************************)
(* Properties                                                              *)
(***************************************************************************)
Deposited == last.op = "processDeposit"

NewOf(q) == q[Len(q)]

SameOrder(a, b) ==
    /\ Len(a) = Len(b)
    /\ \A i \in 1..Len(a) : a[i].oid = b[i].oid

\* in one head-fill from `before` to `after`, a later position is paid only
\* once every earlier position with unmet need has been filled completely
FifoPrecedence(before, after) ==
    \A i \in 1..Len(before) : \A j \in 1..Len(before) :
        ( /\ i < j
          /\ Need(before[i]) > 0
          /\ Need(before[j]) > 0
          /\ after[j].collected > before[j].collected )
        => after[i].collected - before[i].collected = Need(before[i])

PaidPair(before, after) ==
    \E i \in 1..Len(before) : \E j \in 1..Len(before) :
        /\ i < j
        /\ Need(before[i]) > 0
        /\ Need(before[j]) > 0
        /\ after[j].collected > before[j].collected

\* C1: FIFO precedence. In the head-fill of every deposit and in every
\* reserve drip, a position B behind a position A (both with unmet need)
\* receives a positive amount only if A's remaining need was filled
\* completely by that same distribution.
C1_FifoPrecedence ==
    Deposited =>
        /\ FifoPrecedence(last.qY, last.qH)
        /\ last.dripRan => FifoPrecedence(last.qG, last.qD)

C1_Witness ==
    /\ Deposited
    /\ last.dripRan
    /\ PaidPair(last.qG, last.qD)
    /\ \E i \in 1..Len(last.qD) :
          /\ last.qD[i].collected > last.qG[i].collected
          /\ Need(last.qD[i]) > 0

C1_HeadFillCase ==
    /\ Deposited
    /\ PaidPair(last.qY, last.qH)

WithinTarget(q) ==
    \A i \in 1..Len(q) : 0 <= q[i].collected /\ q[i].collected <= q[i].target

\* C2: every active position satisfies 0 <= collected <= target in every
\* state, the states between the steps of one deposit (after the slashing
\* sweep, the drip, the yield split, the head-fill and the push) included.
C2_CollectedWithinTarget ==
    /\ WithinTarget(queue)
    /\ Deposited =>
          /\ WithinTarget(last.qG)
          /\ WithinTarget(last.qD)
          /\ WithinTarget(last.qY)
          /\ WithinTarget(last.qH)
          /\ WithinTarget(last.qP)

\* C3: retirement correctness. After a deposit a position is active iff
\* collected < target - 0.01; every position that reached target - 0.01 has
\* left with collected equal to its target, and a position that has left is
\* never active again.
C3_RetirementCorrectness ==
    /\ \A i \in 1..Len(queue) :
          /\ queue[i].collected < queue[i].target - EPSILON
          /\ queue[i].oid \notin retired
    /\ Deposited =>
          /\ \A i \in 1..Len(last.qP) :
                LET p == last.qP[i]
                    active == \E k \in 1..Len(queue) :
                                 /\ queue[k].oid = p.oid
                                 /\ queue[k].collected = p.collected
                                 /\ queue[k].target = p.target
                    left   == \E k \in 1..Len(last.exits) :
                                 /\ last.exits[k].oid = p.oid
                                 /\ last.exits[k].target = p.target
                                 /\ last.exits[k].collected = p.target
                IN  /\ active <=> p.collected < p.target - EPSILON
                    /\ left <=> p.collected >= p.target - EPSILON
                    /\ left => p.oid \in retired
          /\ Len(queue) + Len(last.exits) = Len(last.qP)

C3_Witness ==
    /\ Deposited
    /\ Len(last.exits) > 0
    /\ Len(queue) > 1
    /\ \E k \in 1..Len(last.leaving) : last.leaving[k].collected # last.leaving[k].target
    /\ \E k \in 1..Len(queue) : queue[k].collected > 0

FundsEntered == config.initialReserve + totalDeposited

FundsHeld == protocolBalance + jackpotBalance + SumCollected(queue) + historySum

\* C4: conservation of funds. No deposit creates or destroys currency: the
\* funds that entered (initial reserve + totalDeposited) and the funds held
\* (reserve + jackpot + collected of active positions + paid out to retired
\* positions) change by the same amount in every processed deposit.
C4_Conservation ==
    [][ (last'.op = "processDeposit" /\ tickCount' = tickCount + 1)
        => FundsEntered' - FundsHeld' = FundsEntered - FundsHeld ]_vars

C6_LeftoverToOwnPosition ==
    (Deposited /\ last.headPool > SumNeed(last.qY)) =>
        NewOf(last.qN).collected
            = Min(last.headPool - SumNeed(last.qY), NewOf(last.qN).target)

\* C7: multiplier bounds. Every position created while the random strategy
\* is active records a multiplier inside [randomDecayMin, randomDecayMax].
C7_MultiplierBounds ==
    (Deposited /\ last.randomActive) =>
        /\ last.cfg.randomDecayMin <= NewOf(last.qN).multiplier
        /\ NewOf(last.qN).multiplier <= last.cfg.randomDecayMax

\* C8: queue order is never permuted. A new position (user or bot) is
\* appended at the tail, and the slashing sweep, the drip, the distribution
\* and the retirement sweep leave the remaining positions in their previous
\* relative order.
C8_QueueOrder ==
    Deposited =>
        /\ SameOrder(last.qG, last.q0)
        /\ SameOrder(last.qD, last.q0)
        /\ SameOrder(last.qY, last.q0)
        /\ SameOrder(last.qH, last.q0)
        /\ Len(last.qN) = Len(last.q0) + 1
        /\ SameOrder(SubSeq(last.qN, 1, Len(last.q0)), last.q0)
        /\ \A i \in 1..Len(last.q0) : NewOf(last.qN).oid # last.q0[i].oid
        /\ Len(last.qP) >= Len(last.qN)
        /\ SameOrder(SubSeq(last.qP, 1, Len(last.qN)), last.qN)
        /\ \A i \in (Len(last.qN) + 1)..Len(last.qP) : IsBot(last.qP[i])
        /\ SameOrder(queue,
                     SelectSeq(last.qP,
                               LAMBDA p : \A k \in 1..Len(last.exits) : last.exits[k].oid # p.oid))

C8_Witness ==
    /\ Deposited
    /\ last.victims # {}
    /\ Len(last.exits) > 0
    /\ Len(queue) >= 3
    /\ \E i \in 1..Len(queue) : queue[i].slashed

C8_BotAppended ==
    /\ Deposited
    /\ Len(last.qP) > Len(last.qN)

NonDecreasing(before, after) ==
    \A i \in 1..Len(before) : \A j \in 1..Len(after) :
        before[i].oid = after[j].oid => after[j].collected >= before[i].collected

\* C9: the collected amount of a position never decreases: not in the
\* slashing sweep, the drip, the yield split, the head-fill, nor in the
\* clamp applied when the position is retired.
C9_CollectedMonotone ==
    Deposited =>
        /\ NonDecreasing(last.q0, last.qG)
        /\ NonDecreasing(last.qG, last.qD)
        /\ NonDecreasing(last.qD, last.qY)
        /\ NonDecreasing(last.qY, last.qH)
        /\ NonDecreasing(last.qH, last.qP)
        /\ NonDecreasing(last.qP, queue)
        /\ NonDecreasing(last.qP, last.exits)

Whale(p, cfg) ==
    /\ p.deposit > cfg.guillotineThreshold
    /\ p.id.kind \notin {"PROTOCOL_SEED", "JACKPOT_BOT", "TAX_BOT"}

C11_SlashingEffect ==
    Deposited =>
        \A i \in 1..Len(last.q0) :
            last.q0[i].oid \in last.victims =>
                LET b == last.q0[i]
                    a == last.qG[i]
                IN  /\ a.oid = b.oid
                    /\ a.id = b.id
                    /\ a.target * 100 = b.target * (100 - last.cfg.guillotineStrength)
                    /\ a.slashed
                    /\ a.deposit = b.deposit
                    /\ a.collected = b.collected
                    /\ a.multiplier = b.multiplier
                    /\ a.entryRound = b.entryRound
                    /\ a.isTaxTarget = b.isTaxTarget
                    /\ a.fastFilled = b.fastFilled
                    /\ a.collected >= a.target - EPSILON =>
                          /\ \E k \in 1..Len(last.exits) : last.exits[k].oid = a.oid
                          /\ \A k \in 1..Len(queue) : queue[k].oid # a.oid

C11_Witness ==
    /\ Deposited
    /\ \E i \in 1..Len(last.q0) :
          /\ last.q0[i].oid \in last.victims
          /\ last.qG[i].collected >= last.qG[i].target - EPSILON
          /\ \E k \in 1..Len(last.exits) : last.exits[k].oid = last.q0[i].oid
    /\ \E i \in 1..Len(last.q0) :
          /\ last.q0[i].oid \in last.victims
          /\ \E k \in 1..Len(queue) : queue[k].oid = last.q0[i].oid /\ queue[k].slashed

InvalidAmount(text) ==
    ParseFloat(text).kind # "num" \/ ParseFloat(text).val <= 0

\* C12: a deposit submitted with a non-positive or non-finite amount is
\* rejected before any state mutation: tick counter, reserve, totalDeposited,
\* round counter, queue (and the client's balance) are unchanged by the call.
C12_InvalidAmountRejected ==
    [][ (HandleDeposit /\ InvalidAmount(dappAmount))
        => UNCHANGED <<tickCount, protocolBalance, jackpotBalance, totalDeposited,
                       currentRound, queue, historyCount, historySum, userBalance>> ]_vars

\* a connected client has had an invalid amount turned down, in a run that
\* already took deposits from the form
C12_Witness ==
    /\ last.op = "handleDeposit"
    /\ last.tick = tickCount
    /\ InvalidAmount(last.text)
    /\ isConnected
    /\ tickCount > 0
    /\ userBalance < INITIAL_USER_BALANCE

NewlySlashed(before, after) ==
    \E i \in 1..Len(before) : after[i].slashed /\ ~before[i].slashed

SlashingHasWork(q, cfg) ==
    /\ Len(q) >= MIN_QUEUE_FOR_SLASH
    /\ \E i \in 1..Len(q) : Whale(q[i], cfg) /\ ~q[i].slashed

\* C14: the tick counter goes up by exactly one in every processed deposit
\* and changes in no other step except a reset, which sets it to 0.  The
\* slashing sweep, when enabled, cuts positions exactly in the deposits whose
\* tick is a multiple of guillotineInterval, and the drip pays exactly in the
\* deposits whose tick is a multiple of 240; both act on the state found
\* before that deposit's fee and distribution.
C14_TickSchedule ==
    [][ /\ (currentRound' # currentRound /\ currentRound' # 1)
              => tickCount' = tickCount + 1
        /\ tickCount' # tickCount =>
              \/ /\ tickCount' = tickCount + 1
                 /\ currentRound' = currentRound + 1
                 /\ totalDeposited' > totalDeposited
              \/ /\ tickCount' = 0
                 /\ queue' = <<SeedPlayer>>
                 /\ historyCount' = 0
        /\ tickCount' = tickCount + 1 =>
              /\ last'.q0 = queue
              /\ NewlySlashed(queue, last'.qG)
                    <=> /\ guillotineEnabled
                        /\ tickCount' % engineConfig.guillotineInterval = 0
                        /\ SlashingHasWork(queue, engineConfig)
              /\ \A i \in 1..Len(queue) : last'.qG[i].collected = queue[i].collected
              /\ (last'.pbD # protocolBalance \/ last'.qD # last'.qG)
                    => tickCount' % DAILY_DRIP_INTERVAL = 0
              /\ (tickCount' % DAILY_DRIP_INTERVAL = 0 /\ protocolBalance > DRIP_GUARD)
                    => /\ (protocolBalance - last'.pbD) * 100
                              = protocolBalance * engineConfig.dailyDripRate
                       /\ SumCollected(last'.qD) > SumCollected(last'.qG)
              /\ last'.pbF = last'.pbD + last'.fee
      ]_vars

\* the deposit of tick 240 has paid the drip out of the reserve
C14_Witness ==
    /\ Deposited
    /\ tickCount = DAILY_DRIP_INTERVAL
    /\ last.pbD < last.pb0
    /\ SumCollected(last.qD) > SumCollected(last.qG)

\* C15: the protocol reserve and the jackpot reserve are never negative (not
\* even between the drip and the fee of a deposit), and the drip rate is
\* between 0 and 1.
C15_ReservesNonNegative ==
    /\ protocolBalance >= 0
    /\ jackpotBalance >= 0
    /\ Deposited => (last.pbD >= 0 /\ last.pbF >= 0)
    /\ config.dailyDripRate \in 0..100
    /\ engineConfig.dailyDripRate \in 0..100

\* a drip at rate 1 has emptied the reserve and a jackpot bot has paid its
\* profit into the jackpot reserve
C15_Witness ==
    /\ Deposited
    /\ last.pb0 > 0
    /\ last.pbD = 0
    /\ jackpotBalance > 0

\* reserve below one tenth of the outstanding liability
HealthCritical(reserve, q) == reserve * 10 < SumNeed(q)

\* C16: a due drip is skipped (reserve unchanged, nobody credited) whenever
\* the reserve is at or near zero or the reserve is critically low relative
\* to the outstanding liability (health factor below 0.1).
C16_DripSkippedWhenStarved ==
    (Deposited /\ last.tick % DAILY_DRIP_INTERVAL = 0
        /\ (last.pb0 <= DRIP_GUARD \/ HealthCritical(last.pb0, last.qG)))
    => (last.pbD = last.pb0 /\ last.qD = last.qG)

\* profit (target - deposit) of the jackpot bots of ex whose object is in gone
RECURSIVE JackpotBotProfit(_, _)
JackpotBotProfit(ex, gone) ==
    IF Len(ex) = 0 THEN 0
    ELSE IF Len(ex) = 1 THEN (IF ex[1].oid \in gone /\ ex[1].id.kind = "JACKPOT_BOT"
                             THEN ex[1].target - ex[1].deposit ELSE 0)
    ELSE JackpotBotProfit(SubSeq(ex, 1, Len(ex) \div 2), gone)
         + JackpotBotProfit(SubSeq(ex, Len(ex) \div 2 + 1, Len(ex)), gone)

\* C17: when a jackpot bot retires exactly its profit (collected - deposit,
\* collected being its target) is added to the jackpot reserve, and no other
\* event changes the jackpot reserve (a reset starts it again at 0).
C17_JackpotReserveFrame ==
    [][ \/ /\ tickCount' = tickCount + 1
           /\ jackpotBalance' = jackpotBalance
                 + JackpotBotProfit(last'.qP, retired' \ retired)
           /\ \A k \in 1..Len(last'.exits) :
                 last'.exits[k].id.kind = "JACKPOT_BOT"
                     => last'.exits[k].collected = last'.exits[k].target
        \/ /\ tickCount' = 0
           /\ last'.op = "reset"
           /\ jackpotBalance' = 0
        \/ /\ tickCount' = tickCount
           /\ jackpotBalance' = jackpotBalance
      ]_vars

\* a jackpot bot has just retired and its profit is in the jackpot reserve
C17_Witness ==
    /\ Deposited
    /\ \E k \in 1..Len(last.exits) : last.exits[k].id.kind = "JACKPOT_BOT"
    /\ jackpotBalance > last.jb0
    /\ jackpotBalance = engineConfig.jackpotAmount

\* the cumulative user counter: retired positions plus active positions
UserCounter == historyCount + Len(queue)

JackpotBotsIn(q) ==
    Len(SelectSeq(q, LAMBDA p : p.id.kind = "JACKPOT_BOT"))

\* C18: a jackpot bot is injected for every multiple of jackpotFrequency that
\* the cumulative user counter (retired + queue length) reaches or passes in a
\* deposit, and at no other time; its target is exactly twice its deposit,
\* whatever multiplier the users of that moment get.
C18_JackpotInjection ==
    [][ /\ tickCount' = tickCount + 1 =>
              /\ JackpotBotsIn(last'.qP) - JackpotBotsIn(queue)
                    = (UserCounter' \div engineConfig.jackpotFrequency)
                      - (UserCounter \div engineConfig.jackpotFrequency)
              /\ botsInjected'.JACKPOT = UserCounter' \div engineConfig.jackpotFrequency
        /\ tickCount' # tickCount + 1 =>
              \/ JackpotBotsIn(queue') = JackpotBotsIn(queue)
              \/ queue' = <<SeedPlayer>>
        /\ \A i \in 1..Len(queue') :
              queue'[i].id.kind = "JACKPOT_BOT" =>
                  /\ queue'[i].target = 2 * queue'[i].deposit
                  /\ queue'[i].deposit = engineConfig.jackpotAmount
      ]_vars

\* two jackpot bots have come in while random decay gives the users of the
\* same run a multiplier other than 2
C18_Witness ==
    /\ botsInjected.JACKPOT >= 2
    /\ \E i \in 1..Len(queue) :
          /\ queue[i].id.kind = "JACKPOT_BOT"
          /\ queue[i].target = 2 * queue[i].deposit
    /\ \E i \in 1..Len(queue) :
          queue[i].id.kind = "USER" /\ queue[i].multiplier # BOT_MULTIPLIER
    /\ UserCounter > 2 * engineConfig.jackpotFrequency

\* what a snapshot of an engine at rest between two deposits looks like
SnapshotAtRest(s) ==
    /\ \A i \in 1..Len(s.queueSlice) :
          s.queueSlice[i].collected < s.queueSlice[i].target - EPSILON
    /\ Len(s.queueSlice) = Min(SNAPSHOT_SLICE, s.stats.usersTrapped)
    /\ s.stats.totalUsers = s.stats.usersPaidExit + s.stats.usersTrapped
    /\ s.headPlayer = IF Len(s.queueSlice) > 0 THEN <<s.queueSlice[1]>> ELSE <<>>

\* C19: deposits run to completion; every snapshot, when it is taken, shows
\* the engine as the last completed operation left it: no active position in
\* it has collected >= target - 0.01, and its aggregates, slice and head agree.
C19_SnapshotsSeeWholeDeposits ==
    [][ uiSnapshot' # uiSnapshot =>
            /\ uiSnapshot' = SyncUIValue(EngineState')
            /\ SnapshotAtRest(uiSnapshot')
      ]_vars

\* the sync timer has taken a snapshot after an auto-run deposit in which a
\* position retired
C19_Witness ==
    /\ Deposited
    /\ last.amount \in AutoAmounts
    /\ Len(last.exits) > 0
    /\ uiSnapshot = SyncUIValue(EngineState)
    /\ Len(uiSnapshot.queueSlice) >= 2

\* the present field values of the Player object with serial oid: the object
\* is in the queue, or it has left the queue and only a snapshot still holds it
ObjectNow(oid) ==
    IF \E i \in 1..Len(queue) : queue[i].oid = oid
    THEN queue[CHOOSE i \in 1..Len(queue) : queue[i].oid = oid]
    ELSE CHOOSE p \in detached : p.oid = oid

Referenced(oid) ==
    \/ \E i \in 1..Len(queue) : queue[i].oid = oid
    \/ \E p \in detached : p.oid = oid

\* C20: a snapshot is an immutable copy: no engine operation after it was
\* taken changes a value it contains, so every position of its queue slice
\* and its head position still read as they did when the snapshot was stored.
C20_SnapshotImmutable ==
    /\ \A i \in 1..Len(uiSnapshot.queueSlice) :
          /\ Referenced(uiSnapshot.queueSlice[i].oid)
          /\ ObjectNow(uiSnapshot.queueSlice[i].oid) = uiSnapshot.queueSlice[i]
    /\ \A i \in 1..Len(uiSnapshot.headPlayer) :
          /\ Referenced(uiSnapshot.headPlayer[i].oid)
          /\ ObjectNow(uiSnapshot.headPlayer[i].oid) = uiSnapshot.headPlayer[i]

\* C21: round cap. Each of the first MAX_TX_PER_ROUND deposits of a round
\* that pass the checks of deposit is accepted as a position and does not
\* settle the round.
C21_FirstThousandAccepted ==
    (lastTx.op = "deposit" /\ ~lastTx.reverted /\ txCount <= MAX_TX_PER_ROUND)
        => (lastTx.queued /\ ~lastTx.settled)

\* C22: settlement is idempotent. _triggerRoundEnd runs at most once, exactly
\* when the round is over, and a deposit sent to a settled round changes
\* nothing in the contract: no second prize, no count, no position.
C22_SettlementOnce ==
    /\ [](settlements <= 1 /\ (roundActive <=> settlements = 0))
    /\ [][(~roundActive /\ ContractDeposit)
            => /\ lastTx'.reverted
               /\ lastTx'.prize = 0
               /\ UNCHANGED <<txCount, roundActive, roundExpiry, lastDepositor,
                              jackpotPool, contractQueue, settlements>>]_vars

\* a deposit was sent to the settled round
C22_Witness ==
    /\ ~roundActive
    /\ settlements = 1
    /\ lastTx.op = "deposit"
    /\ lastTx.reverted

\* the rate the penalty is to have under the health h (hundredths)
StressedExitRate(h) == IF h < 10 THEN 35 ELSE 20

\* C23: emergency withdrawal penalty. An emergency exit refunds
\* deposit * (1 - rate), where rate is 20% normally and 35% whenever the
\* health factor is below 0.1.
C23_ExitPenaltyFollowsHealth ==
    (lastTx.op = "emergencyExit" /\ ~lastTx.reverted)
        => lastTx.refund * 100 = lastTx.deposit * (100 - StressedExitRate(lastTx.health))

\* C24: restart frame. A restart (handleFullReset) leaves the lifetime
\* counters as they were: the total deposited, the number of retired
\* positions and the sum paid to them.
C24_RestartKeepsLifetimeCounters ==
    [][FullReset => /\ totalDeposited' = totalDeposited
                    /\ historyCount' = historyCount
                    /\ historySum' = historySum]_vars

\* the texts an audit can leave in the analysis field
AuditTexts == {API_KEY_NOT_FOUND, API_KEY_MISSING, NO_ANALYSIS, ANALYSIS_FAILED, GENERATED_TEXT}

\* C25: audit error handling. Whatever the API does, the awaited analyzeRisk
\* yields a text that becomes the analysis and ends the audit; no step of an
\* audit changes the engine; and an audit in progress eventually ends.
C25_AuditAlwaysEnds ==
    /\ [][AuditSettles => (analysis' \in AuditTexts /\ ~isAnalyzing')]_vars
    /\ [][(HandleAnalyze \/ AuditSettles) => UNCHANGED <<engineVars, engineConfig>>]_vars
    /\ (isAnalyzing ~> ~isAnalyzing)

\* an audit whose request failed has ended with the placeholder
C25_Witness ==
    /\ analysis = ANALYSIS_FAILED
    /\ ~isAnalyzing
    /\ pendingAudit = "none"

\* the first positions of the run have all been retired by the sweep
EarlyRetired == \A o \in 0 .. EarlyPositions : o \in retired

\* C26: progress of the queue. A deposit with a positive net amount raises
\* the collected amount of the head position unless the head leaves the
\* queue in that deposit; a position leaves the queue only by retirement;
\* and while deposits keep being processed the positions that entered are
\* eventually all retired (stated for the first EarlyPositions of a run).
C26_QueueProgress ==
    /\ [][(/\ tickCount' = tickCount + 1
           /\ last'.net > 0
           /\ Len(queue') > 0
           /\ queue'[1].oid = queue[1].oid)
            => queue'[1].collected > queue[1].collected]_vars
    /\ [](\A o \in 0 .. EarlyPositions :
             o < nextOid => (o \in retired \/ \E i \in 1 .. Len(queue) : queue[i].oid = o))
    /\ <>EarlyRetired

\* the seed and the first users have retired while later users wait
C26_Witness ==
    /\ EarlyRetired
    /\ Len(queue) > 0
    /\ last.op = "processDeposit"
    /\ last.net > 0

\* C27: configuration after a change. Once the callbacks of an operator
\* change have run (the config-sync effect and, for the initial-reserve
\* control, the delayed reset), the engine holds the configuration the
\* controls show, and an engine a reset has just built starts with the
\* initial reserve of that configuration.
C27_EngineFollowsControls ==
    /\ engineConfig = config
    /\ last.op = "reset" => protocolBalance = config.initialReserve

\* C28: drip conservation. A drip takes from the protocol reserve exactly
\* what it adds to the collected amounts of the queue, also when the drip
\* amount exceeds what the queue still needs.
C28_DripConservation ==
    (Deposited /\ last.dripRan)
        => last.pb0 - last.pbD = SumCollected(last.qD) - SumCollected(last.qG)

\* C30: identifier uniqueness. The positions in the queue (seed, users and
\* bots) have pairwise distinct ids.
C30_DistinctIds ==
    \A i, j \in 1 .. Len(queue) : i # j => queue[i].id # queue[j].id

\* C29: automatic pause. The tick counter never exceeds AUTO_PAUSE_TICKS:
\* once it has reached that value no deposit, automatic or manual, is
\* processed until a full reset.
C29_NoDepositAfterPause == tickCount <= AUTO_PAUSE_TICKS

\* C37: the fastFilled flag marks only positions that were paid in full
\* within FAST_FILL_ROUNDS deposits of their entry: no position that is still
\* short of its target carries the flag.
C37_FastFilledOnlyWhenPaid ==
    \A i \in 1 .. Len(queue) :
        queue[i].fastFilled => queue[i].collected >= queue[i].target - EPSILON

\* C34: linear decay.  A user position created under dynamic decay (random
\* decay off) gets the base multiplier less a reduction that is floor(queue
\* length / 10) x decayRate clamped into [decayMinPercent x base,
\* decayMaxPercent x base], so that its multiplier lies between
\* base x (1 - decayMaxPercent) and base x (1 - decayMinPercent).
C34_LinearDecayClamped ==
    [][ ( /\ tickCount' = tickCount + 1
          /\ dynamicDecayEnabled
          /\ ~last'.isSystem
          /\ ~last'.randomActive )
        => LET base         == multiplier
               cfg          == engineConfig
               step         == (Len(last'.qD) \div DECAY_STEP_USERS) * cfg.decayRate
               minReduction == (base * cfg.decayMinPercent) \div 100
               maxReduction == (base * cfg.decayMaxPercent) \div 100
               clamped      == IF step > maxReduction THEN maxReduction
                               ELSE IF step < minReduction THEN minReduction
                               ELSE step
           IN  /\ last'.eff = base - clamped
               /\ last'.eff >= base - maxReduction
               /\ last'.eff <= base - minReduction ]_vars

\* C35: the cumulative user count (retired count + active queue length) never
\* decreases in a run: within one processed deposit the slashing sweep, the
\* drip, the distribution and the retirement sweep leave it unchanged, and the
\* deposit as a whole increases it by exactly 1 for the depositor plus 1 for
\* each bot injected; every snapshot taken shows that count as totalUsers.
C35_UserCountGrows ==
    [][ tickCount' >= tickCount =>
          /\ UserCounter' >= UserCounter
          /\ uiSnapshot' # uiSnapshot => uiSnapshot'.stats.totalUsers = UserCounter'
          /\ tickCount' = tickCount + 1 =>
                LET bots == (botsInjected'.JACKPOT - botsInjected.JACKPOT)
                            + (botsInjected'.TAX - botsInjected.TAX)
                IN  /\ Len(last'.qG) = Len(queue)
                    /\ Len(last'.qD) = Len(queue)
                    /\ Len(last'.qH) = Len(queue)
                    /\ Len(last'.qN) = Len(queue) + 1
                    /\ Len(last'.qP) = Len(last'.qN) + bots
                    /\ historyCount' + Len(queue') = historyCount + Len(last'.qP)
                    /\ UserCounter' = UserCounter + 1 + bots
      ]_vars

\* a deposit that brought in a bot and retired a position, after earlier
\* retirements: the count went up by two
C35_Witness ==
    /\ last.op = "processDeposit"
    /\ Len(last.qP) = Len(last.qN) + 1
    /\ Len(last.exits) > 0
    /\ last.hCount0 > 0
    /\ UserCounter = last.hCount0 + Len(last.q0) + 2

\* the tax the claim has a retiring position pay
WinnersTaxDue(p, cfg) ==
    IF p.id.kind = "USER" /\ p.isTaxTarget /\ p.target > p.deposit
    THEN ((p.target - p.deposit) * cfg.winnersTaxRate) \div 100
    ELSE 0

RECURSIVE SumTaxDue(_, _)
SumTaxDue(ex, cfg) ==
    IF Len(ex) = 0 THEN 0 ELSE WinnersTaxDue(Head(ex), cfg) + SumTaxDue(Tail(ex), cfg)

RECURSIVE SumOtherCredit(_)
SumOtherCredit(ex) ==
    IF Len(ex) = 0 THEN 0
    ELSE (IF Head(ex).id = SeedId THEN Head(ex).target
          ELSE IF Head(ex).id.kind = "TAX_BOT" THEN Head(ex).target - Head(ex).deposit
          ELSE 0) + SumOtherCredit(Tail(ex))

\* C36: winners tax.  The position created by a deposit is flagged exactly
\* when it is a user position, the tax is enabled and its cumulative ordinal
\* is a multiple of winnersTaxFrequency; seed and bots are never flagged; at
\* retirement a flagged position, and no other, is charged winnersTaxRate x
\* (target - deposit), once; and what is credited to the reserve is taken out
\* of the payout recorded for that position, so that no funds are created.
C36_WinnersTax ==
    [][ tickCount' = tickCount + 1 =>
          LET cfg      == engineConfig
              newcomer == last'.qN[Len(last'.qN)]
              ordinal  == last'.hCount0 + Len(last'.qD) + 1
          IN  /\ newcomer.isTaxTarget <=>
                    ( /\ winnersTaxEnabled
                      /\ newcomer.id.kind = "USER"
                      /\ ordinal % cfg.winnersTaxFrequency = 0 )
              /\ \A i \in 1 .. Len(last'.qP) :
                    last'.qP[i].id.kind # "USER" => ~last'.qP[i].isTaxTarget
              /\ protocolBalance' - last'.pbF
                    = SumTaxDue(last'.exits, cfg) + SumOtherCredit(last'.exits)
              /\ \A i \in 1 .. Len(last'.exits) :
                    last'.exits[i].collected
                       = last'.exits[i].target - WinnersTaxDue(last'.exits[i], cfg)
      ]_vars

\* C33: randomized strategy cadence.  While random decay is on, a deposit
\* redraws the random multiplier exactly when the cumulative user count has
\* reached a multiple of randomDecayFrequency since the previous deposit
\* began; otherwise the multiplier is held, and the new position records the
\* same multiplier as the one before it.
C33_RandomCadence ==
    [][ ( /\ tickCount' = tickCount + 1
          /\ last.op = "processDeposit"
          /\ last.randomActive
          /\ last'.randomActive )
        => LET freq    == engineConfig.randomDecayFrequency
               before  == last.hCount0 + Len(last.q0)
               now     == UserCounter
               reached == \E m \in before + 1 .. now : m % freq = 0
           IN  /\ reached <=> last'.rolled
               /\ last'.qN[Len(last'.qN)].multiplier = currentRandomMultiplier'
               /\ ~last'.rolled =>
                     /\ currentRandomMultiplier' = currentRandomMultiplier
                     /\ last'.eff = last.eff
      ]_vars

\* the target of a position that was never slashed, or slashed once at the
\* given strength
TargetSlashedAtMostOnce(p, strength) ==
    IF p.slashed
    THEN p.target * 10000 = p.deposit * p.multiplier * (100 - strength)
    ELSE p.target * 100 = p.deposit * p.multiplier

\* C31: a position is slashed at most once in its lifetime.  A sweep never
\* selects a position that is already slashed, and the target of every
\* position, queued or just retired, is deposit x multiplier if it was never
\* slashed and deposit x multiplier x (1 - slash strength) if it was.
C31_SlashedAtMostOnce ==
    /\ \A i \in 1 .. Len(queue) :
          TargetSlashedAtMostOnce(queue[i], engineConfig.guillotineStrength)
    /\ last.op = "processDeposit" =>
          /\ \A i \in 1 .. Len(last.q0) :
                last.q0[i].slashed =>
                    /\ last.q0[i].oid \notin last.victims
                    /\ last.qG[i] = last.q0[i]
          /\ \A k \in 1 .. Len(last.leaving) :
                TargetSlashedAtMostOnce(last.leaving[k], last.cfg.guillotineStrength)

\* a sweep slashes new victims while a position above the threshold that an
\* earlier sweep slashed is queued, and stays queued after the deposit
C31_Witness ==
    /\ last.op = "processDeposit"
    /\ last.slashRan
    /\ last.victims # {}
    /\ \E i \in 1 .. Len(last.q0) :
          /\ last.q0[i].slashed
          /\ Whale(last.q0[i], last.cfg)
          /\ last.q0[i].collected > 0
          /\ \E k \in 1 .. Len(queue) : queue[k].oid = last.q0[i].oid

\* C32: victim selection.  One slashing sweep slashes at most MAX_VICTIMS
\* positions, pairwise distinct (as many as there are candidates, up to that
\* number); each of them is an unslashed user position above the threshold
\* with fewer than CANDIDATE_POOL such positions of larger remaining
\* liability in the queue at the time of the sweep; no other position changes.
C32_VictimSelection ==
    (last.op = "processDeposit" /\ last.slashRan) =>
        LET q == last.q0
            E == {i \in 1 .. Len(q) : Whale(q[i], last.cfg) /\ ~q[i].slashed}
            V == {i \in 1 .. Len(q) : q[i].oid \in last.victims}
        IN  /\ Cardinality(last.victims) <= MAX_VICTIMS
            /\ Cardinality(V) = Cardinality(last.victims)
            /\ Len(q) >= MIN_QUEUE_FOR_SLASH =>
                  Cardinality(V) = Min(MAX_VICTIMS, Cardinality(E))
            /\ \A i \in V :
                  /\ i \in E
                  /\ Cardinality({j \in E : Need(q[j]) > Need(q[i])}) < CANDIDATE_POOL
            /\ \A i \in 1 .. Len(q) : last.qG[i] # q[i] <=> i \in V

\* a sweep over more eligible positions than the pool holds picks MAX_VICTIMS
\* of them and leaves out an eligible position of smaller liability
C32_Witness ==
    /\ last.op = "processDeposit"
    /\ last.slashRan
    /\ Cardinality(last.victims) = MAX_VICTIMS
    /\ LET q == last.q0
           E == {i \in 1 .. Len(q) : Whale(q[i], last.cfg) /\ ~q[i].slashed}
       IN  /\ Cardinality(E) > CANDIDATE_POOL
           /\ \E i \in E : Cardinality({j \in E : Need(q[j]) > Need(q[i])}) >= CANDIDATE_POOL

====
